---- MODULE Spec2Model ----
(***************************************************************************)
(* FAISSVectorStore (src/src/database/core_faiss.py): the vector index of  *)
(* the RAG service, its persistence and its use from concurrent callers.   *)
(*                                                                         *)
(* Vectors are integer tuples with a single non-zero component, so that    *)
(* L2 normalisation and squared L2 distances stay in the integers.         *)
(* Python's None is the value NoneVal, an absent dict key is NoKey.        *)
(***************************************************************************)
EXTENDS Integers, Sequences, FiniteSets, TLC

\* ---------------------------------------------------------------- bounds
MaxBatch == 2      \* longest embeddings / text_chunks / metadata argument
MaxVectors == 2    \* add is not called when the index would outgrow this
MaxIssued == 3     \* add is not called when next_id would outgrow this
MaxK == 2          \* largest k passed to search
MaxChunks == 3     \* chunks ingested before a question is asked

Dims == {2, 3}     \* embedding widths in use (384 in production)
Paths == {"p"}     \* base paths given to save_index / load_index
Texts == {"ta"}    \* chunk texts
Threads == {1, 2}  \* concurrent callers of add_embeddings

NoneVal == -1      \* Python None (page numbers are 0-based integers)
NoKey == -2        \* key absent from a metadata dict
SimScale == 60     \* similarity 1/(1+d) is kept as SimScale \div (1+d)

Min(a, b) == IF a < b THEN a ELSE b
Range(s) == {s[i] : i \in DOMAIN s}

\* ------------------------------------------------------------ numpy side
\* a (1, w) array with component c at position axis, zeros elsewhere
Vec(w, axis, c) == [i \in 1..w |-> IF i = axis THEN c ELSE 0]

\* the embeddings the embedder can hand over, per width
RawVectors(w) == {Vec(w, 1, 2), Vec(w, 1, -1), Vec(w, 2, 3)}

RECURSIVE SumSq(_, _)
SumSq(v, n) == IF n = 0 THEN 0 ELSE v[n] * v[n] + SumSq(v, n - 1)

\* integer square root of a perfect square
ISqrt(n) == CHOOSE r \in 0..n : r * r = n

\* faiss.normalize_L2 on one row: a zero row is left as it is
normalize_L2(v) ==
  LET nrm == ISqrt(SumSq(v, Len(v)))
  IN IF nrm = 0 THEN v ELSE [i \in 1..Len(v) |-> v[i] \div nrm]

RECURSIVE SqDist(_, _, _)
SqDist(u, v, n) ==
  IF n = 0 THEN 0 ELSE (u[n] - v[n]) * (u[n] - v[n]) + SqDist(u, v, n - 1)

\* ------------------------------------------------------------ faiss index
\* faiss.IndexFlatL2(d): the width and the rows added so far
IndexFlatL2(d) == [d |-> d, rows |-> <<>>]

ntotal(index) == Len(index.rows)

\* index.add(embeddings)
index_add(index, embeddings) == [index EXCEPT !.rows = @ \o embeddings]

\* position (0-based) of the row ranked r-th (1-based) for query q: rows by
\* ascending squared L2 distance, equal distances by position
Closer(index, q, a, b) ==
  LET da == SqDist(index.rows[a], q, index.d)
      db == SqDist(index.rows[b], q, index.d)
  IN da < db \/ (da = db /\ a < b)

RankOf(index, q, a) ==
  1 + Cardinality({b \in 1..ntotal(index) : Closer(index, q, b, a)})

\* index.search(q, k) for one query row: k (distance, label) pairs, the
\* missing ones padded with label -1
PadDistance == 1000

index_search(index, q, k) ==
  [r \in 1..k |->
     IF r <= ntotal(index)
     THEN LET a == CHOOSE x \in 1..ntotal(index) : RankOf(index, q, x) = r
          IN [idx |-> a - 1, dist |-> SqDist(index.rows[a], q, index.d)]
     ELSE [idx |-> -1, dist |-> PadDistance]]

\* ------------------------------------------------------- call arguments
\* an image record of the extractor: img.get("page"), img["path"]
Img(page, path) == [page |-> page, path |-> path]

ImageLists == {<<>>, <<Img(0, "a"), Img(0, "b"), Img(1, "c")>>}

\* a chunk id: "chunk_<n>" from the caller, "doc_<n>" made by the store
ChunkId(n) == [kind |-> "chunk", n |-> n]
DocId(n) == [kind |-> "doc", n |-> n]
AbsentId == [kind |-> "absent", n |-> 0]

\* one element of the metadata argument: a dict (with or without its keys)
\* or something that is not a dict and has no .get
MetaDict(cid, page, cidx) ==
  [isdict |-> TRUE, chunk_id |-> cid, page_number |-> page, chunk_index |-> cidx]
NotADict == [isdict |-> FALSE, chunk_id |-> AbsentId, page_number |-> NoneVal,
             chunk_index |-> NoKey]

MetaEntries == {MetaDict(AbsentId, NoneVal, NoKey), MetaDict(ChunkId(7), 0, 5),
                NotADict}

SeqsUpTo(S, n) == UNION {[1..m -> S] : m \in 0..n}

\* an (n, w) array
Array(w, rows) == [w |-> w, rows |-> rows]

\* the arguments of add_embeddings calls built from the given choices
ArgsOf(arrays, metas, imgs) ==
  {[embeddings |-> e, text_chunks |-> tc, metadata |-> md, images |-> im] :
     e \in arrays, tc \in SeqsUpTo(Texts, MaxBatch), md \in metas, im \in imgs}

\* the arrays of up to MaxBatch rows, of every width, over the vectors V[w]
ArraysOver(V) ==
  UNION {{Array(w, rows) : rows \in SeqsUpTo(V[w], MaxBatch)} : w \in Dims}

OneVector(w) == {Vec(w, 1, 2)}

\* every shape of the metadata argument, one embedding value
MetaArgs == ArgsOf(ArraysOver([w \in Dims |-> OneVector(w)]), SeqsUpTo(MetaEntries, MaxBatch), ImageLists)

\* every embedding value; metadata omitted, or one dict for the whole call
VectorArgs ==
  ArgsOf(ArraysOver([w \in Dims |-> RawVectors(w)]), {<<>>, <<MetaDict(AbsentId, NoneVal, NoKey)>>},
         {<<>>})

\* calls that pass add's validation on a store of dimension d: metadata
\* omitted, or a list whose second element is not a dict
LifeArgs(d) ==
  {[embeddings |-> Array(d, rows), text_chunks |-> tc, metadata |-> md,
    images |-> <<>>] :
     rows \in SeqsUpTo(OneVector(d), MaxBatch), tc \in SeqsUpTo(Texts, MaxBatch),
     md \in {<<>>, <<MetaDict(AbsentId, NoneVal, NoKey), NotADict>>}}

\* ------------------------------------------------------ FAISSVectorStore
EmptyDict == <<>>
DictSet(d, k, v) == [x \in DOMAIN d \cup {k} |-> IF x = k THEN v ELSE d[x]]

\* __init__ and _initialize_index for index_type "flat"
FAISSVectorStore(dimension) ==
  [dimension |-> dimension, index_type |-> "flat",
   index |-> IndexFlatL2(dimension), metadata |-> <<>>,
   id_to_index |-> EmptyDict, next_id |-> 0]

\* the metadata list add works with: the caller's, or the basic one
default_metadata(text_chunks) ==
  [j \in 1..Len(text_chunks) |-> MetaDict(ChunkId(j - 1), NoneVal, j - 1)]

effective_metadata(arg) ==
  IF Len(arg.metadata) = 0 THEN default_metadata(arg.text_chunks)
  ELSE arg.metadata

\* a linker that gives every chunk every image of the call
associated_images_all(images, page_number) == images

\* images of the chunk's page, as the loop body computes them
associated_images(images, page_number) ==
  IF Len(images) > 0 /\ page_number # NoneVal
  THEN LET OnPage(img) == img.page = page_number IN SelectSeq(images, OnPage)
  ELSE <<>>

\* the record appended for the i-th (0-based) pair of the zip, when next_id
\* is nid and the call's start_idx is start
faiss_metadata(arg, md, i, nid, start) ==
  LET cm == md[i + 1]
      assoc == associated_images(arg.images, cm.page_number)
  IN [id |-> IF cm.chunk_id = AbsentId THEN DocId(nid) ELSE cm.chunk_id,
      text |-> arg.text_chunks[i + 1],
      page_number |-> cm.page_number,
      chunk_index |-> IF cm.chunk_index = NoKey THEN i ELSE cm.chunk_index,
      faiss_index |-> start + i,
      associated_images |-> Len(assoc),
      image_info |-> SubSeq(assoc, 1, Min(3, Len(assoc)))]

\* number of pairs the loop over zip(text_chunks, metadata) completes, and
\* whether it stops on an element without .get
ZipLen(arg, md) == Min(Len(arg.text_chunks), Len(md))
FirstBad(arg, md) ==
  IF \E j \in 1..ZipLen(arg, md) : ~md[j].isdict
  THEN CHOOSE j \in 1..ZipLen(arg, md) :
         ~md[j].isdict /\ \A h \in 1..(j - 1) : md[h].isdict
  ELSE 0
Completed(arg, md) ==
  IF FirstBad(arg, md) = 0 THEN ZipLen(arg, md) ELSE FirstBad(arg, md) - 1

RECURSIVE add_loop(_, _, _, _, _)
add_loop(S, arg, md, start, i) ==
  IF i = 0 THEN S
  ELSE LET P == add_loop(S, arg, md, start, i - 1)
       IN [P EXCEPT
             !.metadata = Append(@, faiss_metadata(arg, md, i - 1, P.next_id, start)),
             !.id_to_index = DictSet(@, P.next_id, start + (i - 1)),
             !.next_id = @ + 1]

\* which validation of add rejects the call ("" when none does)
add_validation(S, arg) ==
  IF arg.embeddings.w # S.dimension THEN "ValueError"
  ELSE IF Len(arg.embeddings.rows) # Len(arg.text_chunks) THEN "ValueError"
  ELSE ""

\* index.add refuses rows whose width is not the index's own
index_add_refuses(S, arg) == arg.embeddings.w # S.index.d

normalized(embeddings) ==
  [j \in 1..Len(embeddings.rows) |-> normalize_L2(embeddings.rows[j])]

\* lines 90-139: what add does once its validations have passed
add_body(S, arg) ==
  IF index_add_refuses(S, arg)
  THEN [store |-> S, outcome |-> "AssertionError", ids |-> <<>>]
  ELSE LET md == effective_metadata(arg)
           start_idx == Len(S.metadata)
           S1 == [S EXCEPT !.index = index_add(@, normalized(arg.embeddings))]
           done == Completed(arg, md)
           S2 == add_loop(S1, arg, md, start_idx, done)
       IN IF FirstBad(arg, md) # 0
          THEN [store |-> S2, outcome |-> "AttributeError", ids |-> <<>>]
          ELSE [store |-> S2, outcome |-> "ok",
                ids |-> [j \in 1..done |-> S.next_id + j - 1]]

\* add_embeddings with the length check moved behind index.add
add_embeddings_checks_late(S, arg) ==
  IF arg.embeddings.w # S.dimension
  THEN [store |-> S, outcome |-> "ValueError", ids |-> <<>>]
  ELSE IF Len(arg.embeddings.rows) # Len(arg.text_chunks)
  THEN [store |-> [S EXCEPT !.index = index_add(@, normalized(arg.embeddings))],
        outcome |-> "ValueError", ids |-> <<>>]
  ELSE add_body(S, arg)

\* add_embeddings: the store after the call, how it ended, the ids returned
add_embeddings(S, arg) ==
  IF add_validation(S, arg) # ""
  THEN [store |-> S, outcome |-> add_validation(S, arg), ids |-> <<>>]
  ELSE add_body(S, arg)

\* a search result: the copy of the metadata record with its two scores
with_scores(m, d) ==
  [id |-> m.id, text |-> m.text, page_number |-> m.page_number,
   chunk_index |-> m.chunk_index, faiss_index |-> m.faiss_index,
   associated_images |-> m.associated_images, image_info |-> m.image_info,
   distance |-> d, similarity |-> SimScale \div (1 + d)]

\* the loop of search over the labels faiss returned, in their order
RECURSIVE collect(_, _, _)
collect(S, hits, n) ==
  IF n = 0 THEN <<>>
  ELSE LET h == hits[n]
       IN IF h.idx # -1 /\ h.idx < Len(S.metadata)
          THEN Append(collect(S, hits, n - 1),
                      with_scores(S.metadata[h.idx + 1], h.dist))
          ELSE collect(S, hits, n - 1)

Reverse(sq) == [j \in 1..Len(sq) |-> sq[Len(sq) + 1 - j]]

\* search that walks the labels from the last to the first
search_walks_backwards(S, q, k) ==
  IF q.w # S.dimension THEN [outcome |-> "ValueError", results |-> <<>>]
  ELSE IF q.w # S.index.d THEN [outcome |-> "AssertionError", results |-> <<>>]
  ELSE LET hits == Reverse(index_search(S.index, normalize_L2(q.rows[1]), k))
       IN [outcome |-> "ok", results |-> collect(S, hits, Len(hits))]

\* search(query_embedding, k): how it ended and the result list
search(S, q, k) ==
  IF q.w # S.dimension THEN [outcome |-> "ValueError", results |-> <<>>]
  ELSE IF q.w # S.index.d THEN [outcome |-> "AssertionError", results |-> <<>>]
  ELSE LET hits == index_search(S.index, normalize_L2(q.rows[1]), k)
       IN [outcome |-> "ok", results |-> collect(S, hits, Len(hits))]

\* get_stats()
get_stats(S) ==
  [total_vectors |-> ntotal(S.index), dimension |-> S.dimension,
   index_type |-> S.index_type, is_trained |-> TRUE,
   metadata_count |-> Len(S.metadata)]

\* clear()
clear(S) ==
  [S EXCEPT !.index = IndexFlatL2(S.dimension), !.metadata = <<>>,
            !.id_to_index = EmptyDict, !.next_id = 0]

\* ------------------------------------------------------ the two services
\* IngestionService.transform_pdf_to_embeddings on its store S, when the
\* extractor and the embedder have made processed_data: the store after the
\* call and the dict the call returns
transform_pdf_to_embeddings(S, processed_data) ==
  LET added == add_embeddings(S, processed_data)
      failure == [success |-> FALSE, total_chunks |-> 0, total_images |-> 0,
                  embedding_dimension |-> 0, assigned_ids |-> <<>>,
                  vector_store_stats |-> get_stats(S),
                  keys |-> {"success", "error", "file_path"}]
  IN IF processed_data.text_chunks = <<>>
     THEN [store |-> S, result |-> failure]
     ELSE IF added.outcome # "ok"
     THEN [store |-> added.store, result |-> failure]
     ELSE [store |-> added.store,
           result |->
             [success |-> TRUE,
              total_chunks |-> Len(processed_data.text_chunks),
              total_images |-> Len(processed_data.images),
              embedding_dimension |-> processed_data.embeddings.w,
              assigned_ids |-> added.ids,
              vector_store_stats |-> get_stats(added.store),
              keys |-> {"success", "message", "file_path", "total_chunks",
                        "total_images", "embedding_dimension",
                        "assigned_ids", "vector_store_stats"}]]

\* The store a ChatbotService is given, S being the store of the ingestion
\* service: get_vector_store() is cached, so both services get the one
\* object; create_vector_store() makes a new FAISSVectorStore() each time
\* it is called, and nothing ever adds to the chatbot's.
vector_store(factory, S) ==
  IF factory = "get_vector_store" THEN S ELSE FAISSVectorStore(S.dimension)

\* ------------------------------------------------------------ the files
\* <path>.faiss and <path>_metadata.pkl: absent, unreadable, or a content
NoIndex == IndexFlatL2(0)
NoDict == [metadata |-> <<>>, id_to_index |-> EmptyDict, next_id |-> 0,
           dimension |-> 0, index_type |-> ""]
AbsentFile(content) == [exists |-> FALSE, readable |-> FALSE, content |-> content]
WrittenFile(content) == [exists |-> TRUE, readable |-> TRUE, content |-> content]

\* the dict save_index pickles
metadata_dict(S) ==
  [metadata |-> S.metadata, id_to_index |-> S.id_to_index,
   next_id |-> S.next_id, dimension |-> S.dimension,
   index_type |-> S.index_type]

\* save_index(filepath): the two files it leaves
save_index(S) ==
  [faiss |-> WrittenFile(S.index), pkl |-> WrittenFile(metadata_dict(S))]

\* load_index that leaves the next-id counter as it was
load_index_keeps_counter(S, ff, pf) ==
  IF ~ff.exists \/ ~pf.exists THEN [store |-> S, outcome |-> "FileNotFoundError"]
  ELSE IF ~ff.readable THEN [store |-> S, outcome |-> "RuntimeError"]
  ELSE IF ~pf.readable
  THEN [store |-> [S EXCEPT !.index = ff.content], outcome |-> "UnpicklingError"]
  ELSE [store |-> [S EXCEPT !.index = ff.content,
                            !.metadata = pf.content.metadata,
                            !.id_to_index = pf.content.id_to_index,
                            !.dimension = pf.content.dimension,
                            !.index_type = pf.content.index_type],
        outcome |-> "ok"]

\* load_index(filepath) given the two files at the path
load_index(S, ff, pf) ==
  IF ~ff.exists THEN [store |-> S, outcome |-> "FileNotFoundError"]
  ELSE IF ~pf.exists THEN [store |-> S, outcome |-> "FileNotFoundError"]
  ELSE IF ~ff.readable THEN [store |-> S, outcome |-> "RuntimeError"]
  ELSE LET S1 == [S EXCEPT !.index = ff.content]
       IN IF ~pf.readable
          THEN [store |-> S1, outcome |-> "UnpicklingError"]
          ELSE [store |-> [S1 EXCEPT !.metadata = pf.content.metadata,
                                     !.id_to_index = pf.content.id_to_index,
                                     !.next_id = pf.content.next_id,
                                     !.dimension = pf.content.dimension,
                                     !.index_type = pf.content.index_type],
                outcome |-> "ok"]

\* ---------------------------------------------------------------- str
\* A Python str is the sequence of its runs <<[ch, n], ...>>. A run whose ch
\* is in Repeated is that character n times; any other run is the first n
\* characters of the text it is named after (a passage of a document, a
\* fixed message of the program). No run is empty and two neighbouring runs
\* of a repeated character differ, so equal strs have equal run sequences.
Repeated == {" ", ".", "x"}

Run(c, n) == IF n = 0 THEN <<>> ELSE <<[ch |-> c, n |-> n]>>

RECURSIVE len(_)
len(s) == IF s = <<>> THEN 0 ELSE s[1].n + len(Tail(s))

\* a + b
concat(a, b) ==
  IF a = <<>> THEN b
  ELSE IF b = <<>> THEN a
  ELSE IF a[Len(a)].ch = b[1].ch /\ b[1].ch \in Repeated
  THEN SubSeq(a, 1, Len(a) - 1)
         \o <<[ch |-> b[1].ch, n |-> a[Len(a)].n + b[1].n]>> \o Tail(b)
  ELSE a \o b

\* s[:k]
RECURSIVE prefix(_, _)
prefix(s, k) ==
  IF k <= 0 \/ s = <<>> THEN <<>>
  ELSE IF s[1].n >= k THEN Run(s[1].ch, k)
  ELSE <<s[1]>> \o prefix(Tail(s), k - s[1].n)

\* s.strip(): whitespace goes from both ends, never from the middle
strip(s) ==
  LET lstrip(t) == IF t # <<>> /\ t[1].ch = " " THEN Tail(t) ELSE t
      rstrip(t) == IF t # <<>> /\ t[Len(t)].ch = " "
                   THEN SubSeq(t, 1, Len(t) - 1) ELSE t
  IN rstrip(lstrip(s))

\* s.upper(): the verdict words are the only text the program upper-cases
upper(s) ==
  LET UpperOf(c) ==
        CASE c = "flagged" -> "FLAGGED"
          [] c = "clean" -> "CLEAN"
          [] c = "valid" -> "VALID"
          [] c = "invalid_spam" -> "INVALID_SPAM"
          [] OTHER -> c
  IN [j \in 1..Len(s) |-> [ch |-> UpperOf(s[j].ch), n |-> s[j].n]]

\* ------------------------------------------------- values of the chain
MaxInputLength == 300    \* input_validations
RetrieveK == 3           \* retrieve_context: search(k=3)
SourcePreview == 200     \* retrieve_context: result['text'][:200]
TopSources == 3          \* rerank_results: reranked_sources[:3]
FallbackChars == 500     \* _create_fallback_response: context[:500]

\* A message of the program is the run named by its text; a message that
\* starts with the cross mark and one of the words the service looks for
\* ("Input", "Response") has the mark and the word as runs of their own.
Marked(word, k, rest, n) == Run("[x] ", 2) \o Run(word, k) \o Run(rest, n)

\* "word" in str(e)
Contains(msg, word) == \E j \in DOMAIN msg : msg[j].ch = word

\* the ValueError messages of the input guardrail
InputMessage ==
  [empty |-> Marked("Input", 5, " cannot be empty.", 17),
   too_long |-> Marked("Input", 5, " too long, please summarize.", 28),
   flagged |->
     Run("[x] Content flagged by security filter. Please rephrase your question.", 68),
   content |->
     Run("[x] Inappropriate content detected. Please rephrase your question.", 64),
   spam |->
     Marked("Input", 5, " appears to be spam or nonsensical. Please ask a clear question.", 64),
   irrelevant |->
     Run("[x] Question not relevant to document analysis. Please ask about document content.", 80),
   injection |->
     Run("[x] Invalid request format. Please ask a straightforward question.", 64)]

\* what GroqProvider raises: without a key, and when the model call fails
ProviderMessage ==
  [key_missing |->
     Run("GROQ_API_KEY no esta configurada. Configurala como variable de entorno o pasala como parametro.", 95),
   failed |-> Run("Error del proveedor Groq: ", 26)]

\* What one step hands to the next: a str (type "str", in field str) or a
\* dict (type "dict") whose keys are the set keys; a key that is absent
\* has the value it has here.
NoFlow ==
  [type |-> "none", str |-> <<>>, keys |-> {},
   question |-> <<>>, context |-> <<>>, sources |-> <<>>, images |-> <<>>,
   has_results |-> FALSE, total_results |-> 0, error |-> <<>>,
   reranking_applied |-> FALSE, reranking_error |-> <<>>,
   original_count |-> 0, reranked_count |-> 0,
   success |-> FALSE, answer |-> <<>>, llm_metadata |-> [fallback_used |-> FALSE, reason |-> "", provider |-> "",
                    error |-> <<>>, keys |-> {}],
   validation_status |-> "", validation_message |-> <<>>,
   enhanced |-> FALSE, enhancement_applied |-> "",
   original_question |-> <<>>,
   chains_used |-> [input_validation |-> "", context_retrieval |-> "",
                    llm_generation |-> "", output_validation |-> "",
                    error |-> ""],
   validation_failed |-> FALSE]

StrFlow(s) == [NoFlow EXCEPT !.type = "str", !.str = s]

\* how a step ends: it returns value, or raises raised(msg); calls counts
\* the model calls it made on the way
Ret(v, n) == [raised |-> "", msg |-> <<>>, value |-> v, calls |-> n]
Raise(kind, msg, n) == [raised |-> kind, msg |-> msg, value |-> NoFlow, calls |-> n]

\* what a model (or scorer, or embedder) does when called: it fails, or it
\* returns text (scores, vec)
NoOut == [err |-> FALSE, text |-> <<>>, scores |-> <<>>, vec |-> <<>>]
Fails == [NoOut EXCEPT !.err = TRUE]
Says(t) == [NoOut EXCEPT !.text = t]

\* ----------------------------------------------------- input guardrail
\* input_validations that measures the length after trimming
input_validations_trims_first(user_input) ==
  IF len(strip(user_input)) = 0 THEN Raise("ValueError", InputMessage.empty, 0)
  ELSE IF len(strip(user_input)) > MaxInputLength
  THEN Raise("ValueError", InputMessage.too_long, 0)
  ELSE Ret(StrFlow(strip(user_input)), 0)

\* input_validations(user_input)
input_validations(user_input) ==
  IF len(strip(user_input)) = 0 THEN Raise("ValueError", InputMessage.empty, 0)
  ELSE IF len(user_input) > MaxInputLength
  THEN Raise("ValueError", InputMessage.too_long, 0)
  ELSE Ret(StrFlow(strip(user_input)), 0)

\* GroqProvider(...) without api_key: it needs GROQ_API_KEY in the environment
GroqProvider(key) ==
  IF ~key THEN Raise("ValueError", ProviderMessage.key_missing, 0) ELSE Ret(NoFlow, 0)

\* groq_provider.generate_response(prompt): any failure leaves as Exception
generate_response(out) ==
  IF out.err THEN Raise("Exception", ProviderMessage.failed, 1)
  ELSE Ret(StrFlow(out.text), 1)

\* content_filter_llm(user_input)
content_filter_llm(user_input, key, out) ==
  LET body ==
        IF GroqProvider(key).raised # "" THEN GroqProvider(key)
        ELSE LET response == generate_response(out)
             IN IF response.raised # "" THEN response
                ELSE IF upper(strip(response.value.str)) = Run("FLAGGED", 7)
                THEN Raise("ValueError", InputMessage.flagged, 1)
                ELSE Ret(StrFlow(user_input), 1)
  IN IF body.raised = "ValueError" THEN body              \* except ValueError: raise
     ELSE IF body.raised # "" THEN Ret(StrFlow(user_input), body.calls)
     ELSE body

\* the verdicts input_validations_with_llm raises on, and with what
ValidityMsg(verdict) ==
  CASE verdict = Run("INVALID_CONTENT", 15) -> InputMessage.content
    [] verdict = Run("INVALID_SPAM", 12) -> InputMessage.spam
    [] verdict = Run("INVALID_IRRELEVANT", 18) -> InputMessage.irrelevant
    [] verdict = Run("INVALID_INJECTION", 17) -> InputMessage.injection
    [] OTHER -> <<>>

\* input_validations_with_llm(user_input): the raises of lines 70-77 sit
\* inside the try, whose only handler is `except Exception`
input_validations_with_llm(user_input, key, out) ==
  LET validated_input == input_validations(user_input)
      body ==
        IF GroqProvider(key).raised # "" THEN GroqProvider(key)
        ELSE LET response == generate_response(out)
             IN IF response.raised # "" THEN response
                ELSE IF ValidityMsg(upper(strip(response.value.str))) # <<>>
                THEN Raise("ValueError",
                           ValidityMsg(upper(strip(response.value.str))), 1)
                ELSE [validated_input EXCEPT !.calls = 1]
  IN IF validated_input.raised # "" THEN validated_input
     ELSE IF body.raised # "" THEN [validated_input EXCEPT !.calls = body.calls]
     ELSE body

\* ------------------------------------------------------------- rewriter
\* rewrite_user_question without its except clause
rewrite_user_question_aborts(user_question, key, out) ==
  IF GroqProvider(key).raised # "" THEN GroqProvider(key)
  ELSE generate_response(out)

\* rewrite_user_question(user_question)
rewrite_user_question(user_question, key, out) ==
  LET body ==
        IF GroqProvider(key).raised # "" THEN GroqProvider(key)
        ELSE generate_response(out)
  IN IF body.raised # "" THEN Ret(StrFlow(user_question), body.calls)
     ELSE body

\* ------------------------------------------------------------ retrieval
\* the image paths of the results, in result order
RECURSIVE image_paths(_)
image_paths(results) ==
  IF results = <<>> THEN <<>>
  ELSE LET result == results[1]
           own == IF result.associated_images > 0
                  THEN [j \in 1..Len(result.image_info) |->
                          result.image_info[j].path]
                  ELSE <<>>
       IN own \o image_paths(Tail(results))

\* list(dict.fromkeys(seq)): the first occurrence of each element
RECURSIVE fromkeys(_)
fromkeys(sq) ==
  IF sq = <<>> THEN <<>>
  ELSE LET init == fromkeys(SubSeq(sq, 1, Len(sq) - 1))
           x == sq[Len(sq)]
       IN IF x \in Range(init) THEN init ELSE Append(init, x)

\* retrieve_context(validated_question) on the store S, when the embedder
\* does emb
retrieve_context(validated_question, S, emb) ==
  LET found == search(S, Array(Len(emb.vec), <<emb.vec>>), RetrieveK)
      \* one entry of "sources"
      source_info(result) ==
        [text |-> concat(prefix(result.text, SourcePreview), Run(".", 3)),
         page_number |-> result.page_number,
         similarity |-> result.similarity,
         chunk_id |-> result.id]
      ContextData(question) ==
        [NoFlow EXCEPT !.type = "dict", !.question = question,
                       !.keys = {"question", "context", "sources", "images",
                                 "has_results"}]
      failed(msg) == [ContextData(validated_question) EXCEPT
                        !.error = msg, !.keys = @ \cup {"error"}]
  IN IF emb.err THEN Ret(failed(Run("encode failed", 13)), 1)
     ELSE IF found.outcome # "ok" THEN Ret(failed(Run("Dimension del query no coincide con la esperada", 56)), 1)
     ELSE IF found.results = <<>> THEN Ret(ContextData(validated_question), 1)
     ELSE Ret([ContextData(validated_question) EXCEPT
                 !.context = found.results[1].text,
                 !.sources = [j \in 1..Len(found.results) |->
                                source_info(found.results[j])],
                 !.images = fromkeys(image_paths(found.results)),
                 !.has_results = TRUE,
                 !.total_results = Len(found.results),
                 !.keys = @ \cup {"total_results"}], 1)

\* ------------------------------------------------------------- reranker
\* the texts the scorer is asked about
docs_to_rank(sources) ==
  LET HasText(source) == strip(source.text) # <<>>
  IN [j \in 1..Len(SelectSeq(sources, HasText)) |->
        strip(SelectSeq(sources, HasText)[j].text)]

\* sorted(pairs, key=score): ascending, equal scores in their given order
sorted_ascending(pairs) ==
  LET Before(a, b) ==
        pairs[a].score < pairs[b].score
          \/ (pairs[a].score = pairs[b].score /\ a < b)
      Place(a) == 1 + Cardinality({b \in DOMAIN pairs : Before(b, a)})
  IN [r \in DOMAIN pairs |-> pairs[CHOOSE a \in DOMAIN pairs : Place(a) = r]]

\* sorted(pairs, key=score, reverse=True): descending, equal scores in
\* their given order
sorted_reverse(pairs) ==
  LET Before(a, b) ==
        pairs[a].score > pairs[b].score
          \/ (pairs[a].score = pairs[b].score /\ a < b)
      Place(a) == 1 + Cardinality({b \in DOMAIN pairs : Before(b, a)})
  IN [r \in DOMAIN pairs |-> pairs[CHOOSE a \in DOMAIN pairs : Place(a) = r]]

\* rerank_results that replaces the context also when scoring failed
rerank_results_drops_context(context_data, scorer) ==
  IF Len(context_data.sources) <= 1 THEN Ret(context_data, 0)
  ELSE Ret([context_data EXCEPT
              !.context = context_data.sources[1].text,
              !.reranking_applied = ~scorer.err,
              !.keys = @ \cup {"reranking_applied"}], 1)

\* rerank_results(context_data) when the cross-encoder does scorer
rerank_results(context_data, scorer) ==
  LET sources == context_data.sources
      docs == docs_to_rank(sources)
      \* list(zip(sources[:len(scores)], scores))
      sources_with_scores ==
        [j \in 1..Min(Len(sources), Len(scorer.scores)) |->
           [source |-> sources[j], score |-> scorer.scores[j]]]
      reranked_sources == sorted_reverse(sources_with_scores)
      top_sources ==
        [j \in 1..Min(TopSources, Len(reranked_sources)) |->
           reranked_sources[j].source]
  IN IF Len(sources) <= 1 THEN Ret(context_data, 0)
     ELSE IF docs = <<>> THEN Ret(context_data, 0)
     ELSE IF scorer.err
     THEN Ret([context_data EXCEPT
                 !.reranking_applied = FALSE,
                 !.reranking_error = Run("predict failed", 14),
                 !.keys = @ \cup {"reranking_applied", "reranking_error"}], 1)
     ELSE Ret([context_data EXCEPT
                 !.sources = top_sources,
                 !.context = IF top_sources # <<>> THEN top_sources[1].text
                             ELSE @,
                 !.reranking_applied = TRUE,
                 !.original_count = Len(sources),
                 !.reranked_count = Len(top_sources),
                 !.keys = @ \cup {"reranking_applied", "original_count",
                                  "reranked_count"}], 1)

\* ----------------------------------------------------------- generation
\* the fixed texts of the answers built without the model
ServiceMessage ==
  [no_context |->
     Run("Lo siento, no pude encontrar informacion relevante para responder tu pregunta. [...]", 184),
   technical |->
     Run("Lo siento, ocurrio un error tecnico al procesar tu pregunta.", 60),
   validation_error |-> Run("validation_error", 16)]

FallbackMessage ==
  [prefix |-> Run("Basandome en la informacion disponible: ", 40),
   cannot_process |->
     Run("Lo siento, no pude procesar tu pregunta en este momento. [...]", 109)]

\* the parameters of PromptManager.create_rag_prompt that have no default
create_rag_prompt_required == {"context", "question", "images_length"}

\* the keyword arguments generate_rag_response calls it with
create_rag_prompt_call == {"context", "question", "config"}

\* _create_fallback_response that returns context[:500] + "..."
create_fallback_response_plain(context) ==
  concat(prefix(context, FallbackChars), Run(".", 3))

\* LLMChainManager._create_fallback_response(context, question, error)
create_fallback_response(context) ==
  IF len(strip(context)) > 0
  THEN LET fallback == strip(prefix(context, FallbackChars))
       IN concat(FallbackMessage.prefix,
                 IF len(context) > FallbackChars
                 THEN concat(fallback, Run(".", 3)) ELSE fallback)
  ELSE FallbackMessage.cannot_process

\* LLMChainManager.generate_rag_response(context, question, config) when the
\* provider's model does gen
generate_rag_response(context, question, gen) ==
  LET \* the dict it returns
      LlmResponse(success, answer, error, keys, calls) ==
        [success |-> success, answer |-> answer, error |-> error,
         fallback |-> ~success,
         provider |-> IF success THEN "model" ELSE "unknown",
         keys |-> keys, calls |-> calls]
      body ==
        IF create_rag_prompt_required \ create_rag_prompt_call # {}
        THEN Raise("TypeError",
                   Run("PromptManager.create_rag_prompt() missing 1 required positional argument: 'images_length'", 89), 0)
        ELSE generate_response(gen)
  IN IF body.raised # ""
     THEN LlmResponse(FALSE, create_fallback_response(context), body.msg,
                      {"success", "error", "answer", "fallback", "question"},
                      body.calls)
     ELSE LlmResponse(TRUE, body.value.str, <<>>,
                      {"success", "answer", "prompt_stats", "provider",
                       "context_length", "question"}, body.calls)

\* generate_llm_response that asks the chain manager whatever was retrieved
generate_llm_response_always_asks(context_data, gen) ==
  LET llm_response ==
        generate_rag_response(context_data.context, context_data.question, gen)
  IN Ret([NoFlow EXCEPT
            !.type = "dict",
            !.keys = {"success", "answer", "question", "sources", "images",
                      "total_results", "llm_metadata", "has_results"},
            !.success = context_data.has_results,
            !.answer = llm_response.answer,
            !.question = context_data.question,
            !.sources = context_data.sources, !.images = context_data.images,
            !.total_results = context_data.total_results,
            !.llm_metadata = [NoFlow.llm_metadata EXCEPT !.fallback_used = llm_response.fallback],
            !.has_results = context_data.has_results],
         llm_response.calls)

\* generate_llm_response(context_data)
generate_llm_response(context_data, gen) ==
  LET question == context_data.question
      context == context_data.context
      has_results == context_data.has_results
      llm_response == generate_rag_response(context, question, gen)
      answer ==
        IF ~has_results THEN ServiceMessage.no_context
        ELSE IF llm_response.success THEN llm_response.answer
        ELSE IF "answer" \in llm_response.keys THEN llm_response.answer
        ELSE concat(prefix(context, FallbackChars), Run(".", 3))
      llm_metadata ==
        IF ~has_results
        THEN [NoFlow.llm_metadata EXCEPT !.fallback_used = TRUE, !.reason = "no_context",
                            !.keys = {"fallback_used", "reason"}]
        ELSE IF llm_response.success
        THEN [NoFlow.llm_metadata EXCEPT !.provider = llm_response.provider,
                            !.fallback_used = FALSE,
                            !.keys = {"provider", "prompt_stats",
                                      "fallback_used", "enhanced"}]
        ELSE [NoFlow.llm_metadata EXCEPT !.provider = llm_response.provider,
                            !.error = llm_response.error,
                            !.fallback_used = TRUE, !.reason = "llm_error",
                            !.keys = {"provider", "error", "fallback_used",
                                      "reason"}]
  IN Ret([NoFlow EXCEPT
            !.type = "dict",
            !.keys = {"success", "answer", "question", "sources", "images",
                      "total_results", "llm_metadata", "has_results"},
            !.success = has_results, !.answer = answer,
            !.question = question, !.sources = context_data.sources,
            !.images = context_data.images,
            !.total_results = context_data.total_results,
            !.llm_metadata = llm_metadata, !.has_results = has_results],
         IF has_results THEN llm_response.calls ELSE 0)

\* ---------------------------------------------------- output guardrail
MinAnswerLength == 10      \* output_basic_validations
MaxAnswerLength == 5000    \* output_basic_validations
RepeatLimit == 10       \* sanitize_content: a character and 10 or more repeats of it
RepeatKept == 3            \* sanitize_content: \1\1\1

\* the ValueError messages of the output guardrail, and the URL notice
OutputMessage ==
  [not_dict |-> Marked("Response", 8, " must be a dictionary.", 22),
   empty |-> Marked("Response", 8, " cannot be empty.", 17),
   too_short |->
     Marked("Response", 8, " too short, must be at least 10 characters.", 43),
   too_long |->
     Marked("Response", 8, " too long, must be under 5000 characters.", 41),
   inappropriate |->
     Marked("Response", 8, " contains inappropriate content. Please try rephrasing your question.", 69),
   incoherent |->
     Marked("Response", 8, " is incoherent or irrelevant. Please try asking a more specific question.", 73),
   unprofessional |->
     Marked("Response", 8, " tone is unprofessional. Please try again.", 42),
   misinformation |->
     Marked("Response", 8, " may contain misinformation. Please verify the information independently.", 73),
   incomplete |->
     Marked("Response", 8, " is too incomplete. Please try asking a more specific question.", 63),
   url_removed |-> Run("[URL removed for security]", 26)]

\* a structural check that trims the answer and lets every answer through
output_basic_validations_accepts(response_data) ==
  Ret([response_data EXCEPT !.answer = strip(@)], 0)

\* output_basic_validations(response_data)
output_basic_validations(response_data) ==
  LET answer == response_data.answer
  IN IF response_data.type # "dict" THEN Raise("ValueError", OutputMessage.not_dict, 0)
     ELSE IF len(strip(answer)) = 0
     THEN Raise("ValueError", OutputMessage.empty, 0)
     ELSE IF len(strip(answer)) < MinAnswerLength
     THEN Raise("ValueError", OutputMessage.too_short, 0)
     ELSE IF len(answer) > MaxAnswerLength
     THEN Raise("ValueError", OutputMessage.too_long, 0)
     ELSE Ret([response_data EXCEPT !.answer = strip(answer)], 0)

\* re.sub(r'<[^>]+>', '', answer): the runs "<b>" and "</b>" are the tags
RECURSIVE remove_tags(_)
remove_tags(s) ==
  IF s = <<>> THEN <<>>
  ELSE LET init == remove_tags(SubSeq(s, 1, Len(s) - 1))
       IN IF s[Len(s)].ch \in {"<b>", "</b>"} THEN init ELSE concat(init, <<s[Len(s)]>>)

\* re.sub(r'http[s]?://[^\s]+', '[URL removed for security]', answer): the
\* match runs from the URL (the run "http://u") to the next whitespace
RECURSIVE replace_urls(_, _)
replace_urls(s, in_url) ==
  IF s = <<>> THEN <<>>
  ELSE IF s[1].ch = " " THEN <<s[1]>> \o replace_urls(Tail(s), FALSE)
  ELSE IF in_url THEN replace_urls(Tail(s), TRUE)
  ELSE IF s[1].ch = "http://u" THEN OutputMessage.url_removed \o replace_urls(Tail(s), TRUE)
  ELSE <<s[1]>> \o replace_urls(Tail(s), FALSE)

\* sanitize_content(response_data); collapse_repeats is
\* re.sub(r'(.)\1{10,}', r'\1\1\1', answer) and collapse_spaces is
\* re.sub(r'\s+', ' ', answer)
sanitize_content(response_data) ==
  LET collapse_repeats(s) ==
        [j \in 1..Len(s) |->
           IF s[j].ch \in Repeated /\ s[j].n > RepeatLimit
           THEN [ch |-> s[j].ch, n |-> RepeatKept] ELSE s[j]]
      collapse_spaces(s) ==
        [j \in 1..Len(s) |->
           IF s[j].ch = " " THEN [ch |-> " ", n |-> 1] ELSE s[j]]
  IN
  Ret([response_data EXCEPT
         !.answer = strip(collapse_spaces(collapse_repeats(
                      replace_urls(remove_tags(@), FALSE))))], 0)

\* the verdicts output_validations_with_llm raises on, and with what
OutputVerdictMsg(verdict) ==
  CASE verdict = Run("INVALID_INAPPROPRIATE", 21) -> OutputMessage.inappropriate
    [] verdict = Run("INVALID_INCOHERENT", 18) -> OutputMessage.incoherent
    [] verdict = Run("INVALID_UNPROFESSIONAL", 22) -> OutputMessage.unprofessional
    [] verdict = Run("INVALID_MISINFORMATION", 22) -> OutputMessage.misinformation
    [] verdict = Run("INVALID_INCOMPLETE", 18) -> OutputMessage.incomplete
    [] OTHER -> <<>>

\* output_validations_with_llm(response_data)
output_validations_with_llm(response_data, key, out) ==
  LET validated_response == output_basic_validations(response_data)
      basic_only(n) ==
        Ret([validated_response.value EXCEPT
               !.validation_status = "basic_only",
               !.keys = @ \cup {"validation_status", "validation_message"}], n)
      body ==
        IF GroqProvider(key).raised # "" THEN GroqProvider(key)
        ELSE LET response == generate_response(out)
                 verdict == upper(strip(response.value.str))
             IN IF response.raised # "" THEN response
                ELSE IF verdict = Run("VALID", 5)
                THEN Ret([validated_response.value EXCEPT
                            !.validation_status = "passed",
                            !.keys = @ \cup {"validation_status",
                                             "validation_message"}], 1)
                ELSE IF OutputVerdictMsg(verdict) # <<>>
                THEN Raise("ValueError", OutputVerdictMsg(verdict), 1)
                ELSE basic_only(1)
  IN IF validated_response.raised # "" THEN validated_response
     ELSE IF body.raised = "ValueError" THEN body        \* except ValueError: raise
     ELSE IF body.raised # "" THEN basic_only(body.calls)
     ELSE body

\* enhance_response_quality(response_data)
enhance_response_quality(response_data, key, out) ==
  LET answer == response_data.answer
      marked(enhanced, how, n) ==
        Ret([response_data EXCEPT
               !.enhanced = enhanced, !.enhancement_applied = how,
               !.keys = @ \cup {"enhanced", "enhancement_applied"}], n)
      body ==
        IF GroqProvider(key).raised # "" THEN GroqProvider(key)
        ELSE generate_response(out)
      enhanced_answer == body.value.str
  IN IF body.raised # "" THEN marked(FALSE, "failed", body.calls)
     ELSE IF 10 * len(strip(enhanced_answer)) > 8 * len(answer)
     THEN Ret([response_data EXCEPT
                 !.answer = strip(enhanced_answer),
                 !.enhanced = TRUE, !.enhancement_applied = "llm_enhancement",
                 !.keys = @ \cup {"enhanced", "enhancement_applied"}], 1)
     ELSE marked(FALSE, "none", 1)

\* ------------------------------------------------- answer_user_question
\* an answer_user_question without handlers: an exception of the chain
\* leaves it, and the caller gets no dictionary
answer_user_question_uncaught(question, r) ==
  IF r.raised = ""
  THEN [r.value EXCEPT
          !.original_question = question,
          !.keys = @ \cup {"original_question", "chains_used"}]
  ELSE NoFlow

\* what answer_user_question returns when the chain ended as r did
answer_user_question(question, r) ==
  IF r.raised = ""
  THEN [r.value EXCEPT
          !.original_question = question,
          !.chains_used = [NoFlow.chains_used EXCEPT
                             !.input_validation = "True",
                             !.context_retrieval = "True",
                             !.llm_generation = "True",
                             !.output_validation = "True"],
          !.keys = @ \cup {"original_question", "chains_used"}]
  ELSE IF r.raised = "ValueError"
  THEN [NoFlow EXCEPT
          !.type = "dict",
          !.keys = {"success", "error", "answer", "question", "sources",
                    "images", "validation_failed", "chains_used"},
          !.success = FALSE, !.error = ServiceMessage.validation_error,
          !.answer = r.msg, !.question = question,
          !.sources = <<>>, !.images = <<>>, !.validation_failed = TRUE,
          !.chains_used = [NoFlow.chains_used EXCEPT
             !.input_validation = IF Contains(r.msg, "Input") THEN "failed" ELSE "passed",
             !.output_validation =
                IF Contains(r.msg, "Response") THEN "failed" ELSE "not_applied"]]
  ELSE [NoFlow EXCEPT
          !.type = "dict",
          !.keys = {"success", "error", "answer", "question", "sources",
                    "images", "chains_used"},
          !.success = FALSE, !.error = r.msg,
          !.answer = ServiceMessage.technical, !.question = question,
          !.sources = <<>>, !.images = <<>>,
          !.chains_used = [NoFlow.chains_used EXCEPT !.error = "True"]]

\* ================================================================ state
VARIABLES
  store,        \* the FAISSVectorStore object: its six fields
  faiss_files,  \* path -> the file <path>.faiss
  pkl_files,    \* path -> the file <path>_metadata.pkl
  last,         \* the call that just returned: arguments and result
  issued,       \* the ids add_embeddings has returned on this object
  pc,           \* thread -> the line of add_embeddings it is about to run
  loc,          \* thread -> the local variables of its add_embeddings call
  spc,          \* the line of save_index the saving thread is about to run
  sloc,         \* the metadata_dict values the saving thread has captured
  apc,          \* the step of the question-answering chain about to run
  flow,         \* the value one step of the chain hands to the next
  trace,        \* the steps and model calls made for the current question
  reply,        \* what answer_user_question returned for it
  env           \* what the collaborators did while it was answered

seqVars == <<last, issued>>
concVars == <<pc, loc, spc, sloc>>
askVars == <<apc, flow, trace, reply, env>>
vars == <<store, faiss_files, pkl_files, last, issued, pc, loc, spc, sloc,
          apc, flow, trace, reply, env>>

\* a (1, w) query array
Queries == UNION {{Array(w, <<v>>) : v \in RawVectors(w)} : w \in Dims}

NoCall ==
  [op |-> "none", outcome |-> "", ids |-> <<>>, results |-> <<>>, k |-> 0,
   path |-> "", w |-> 0, n_emb |-> 0, n_txt |-> 0, fresh |-> FALSE]

NoArg == [embeddings |-> Array(0, <<>>), text_chunks |-> <<>>,
          metadata |-> <<>>, images |-> <<>>]
NoLocals == [arg |-> NoArg, md |-> <<>>, rows |-> <<>>, start_idx |-> 0,
             i |-> 0, doc_id |-> AbsentId, assigned_ids |-> <<>>, tmp |-> 0]
NoCapture == [next_id |-> 0, dimension |-> 0, index_type |-> ""]

Init ==
  /\ \E d \in Dims : store = FAISSVectorStore(d)
  /\ faiss_files = [p \in Paths |-> AbsentFile(NoIndex)]
  /\ pkl_files = [p \in Paths |-> AbsentFile(NoDict)]
  /\ last = NoCall
  /\ issued = {}
  /\ pc = [t \in Threads |-> "idle"]
  /\ loc = [t \in Threads |-> NoLocals]
  /\ spc = "idle"
  /\ sloc = NoCapture
  /\ apc = "idle"
  /\ flow = Ret(NoFlow, 0)
  /\ trace = <<>>
  /\ reply = NoFlow
  /\ env = [question |-> <<>>, key |-> FALSE]

\* FAISSVectorStore(dimension=d): a new object replaces the old one
Construct(d) ==
  /\ UNCHANGED <<concVars, askVars>>
  /\ store' = FAISSVectorStore(d)
  /\ issued' = {}
  /\ last' = [NoCall EXCEPT !.op = "init"]
  /\ UNCHANGED <<faiss_files, pkl_files>>

AddEmbeddings(arg) ==
  /\ UNCHANGED <<concVars, askVars>>
  /\ ntotal(store.index) + Len(arg.embeddings.rows) <= MaxVectors
  /\ store.next_id + Len(arg.embeddings.rows) <= MaxIssued
  /\ LET r == add_embeddings(store, arg)
     IN /\ store' = r.store
        /\ issued' = issued \cup Range(r.ids)
        /\ last' = [NoCall EXCEPT !.op = "add", !.outcome = r.outcome,
                                  !.ids = r.ids, !.w = arg.embeddings.w,
                                  !.n_emb = Len(arg.embeddings.rows),
                                  !.n_txt = Len(arg.text_chunks)]
  /\ UNCHANGED <<faiss_files, pkl_files>>

Search(q, k) ==
  /\ UNCHANGED <<concVars, askVars>>
  /\ LET r == search(store, q, k)
     IN last' = [NoCall EXCEPT !.op = "search", !.outcome = r.outcome,
                               !.results = r.results, !.k = k, !.w = q.w]
  /\ UNCHANGED <<store, faiss_files, pkl_files, issued>>

Clear ==
  /\ UNCHANGED <<concVars, askVars>>
  /\ store' = clear(store)
  /\ last' = [NoCall EXCEPT !.op = "clear", !.outcome = "ok"]
  /\ UNCHANGED <<faiss_files, pkl_files, issued>>

SaveIndex(p) ==
  /\ UNCHANGED <<concVars, askVars>>
  /\ faiss_files' = [faiss_files EXCEPT ![p] = save_index(store).faiss]
  /\ pkl_files' = [pkl_files EXCEPT ![p] = save_index(store).pkl]
  /\ last' = [NoCall EXCEPT !.op = "save", !.outcome = "ok", !.path = p]
  /\ UNCHANGED <<store, issued>>

LoadIndex(p) ==
  /\ UNCHANGED <<concVars, askVars>>
  /\ LET r == load_index(store, faiss_files[p], pkl_files[p])
     IN /\ store' = r.store
        /\ last' = [NoCall EXCEPT !.op = "load", !.outcome = r.outcome,
                                  !.path = p,
                                  !.fresh = (store = FAISSVectorStore(store.dimension))]
  /\ UNCHANGED <<faiss_files, pkl_files, issued>>

\* the persistence medium loses or garbles one of the two files
Damage(p, which, how) ==
  /\ UNCHANGED <<concVars, askVars>>
  /\ \/ /\ which = "faiss"
        /\ faiss_files[p].exists
        /\ faiss_files' = [faiss_files EXCEPT ![p] =
             IF how = "delete" THEN AbsentFile(NoIndex)
             ELSE [exists |-> TRUE, readable |-> FALSE, content |-> NoIndex]]
        /\ UNCHANGED pkl_files
     \/ /\ which = "pkl"
        /\ pkl_files[p].exists
        /\ pkl_files' = [pkl_files EXCEPT ![p] =
             IF how = "delete" THEN AbsentFile(NoDict)
             ELSE [exists |-> TRUE, readable |-> FALSE, content |-> NoDict]]
        /\ UNCHANGED faiss_files
  /\ last' = [NoCall EXCEPT !.op = "damage"]
  /\ UNCHANGED <<store, issued>>

Next ==
  \/ \E d \in Dims : Construct(d)
  \/ \E arg \in LifeArgs(store.dimension) :
       Len(arg.text_chunks) = Len(arg.embeddings.rows) /\ AddEmbeddings(arg)
  \/ Clear
  \/ \E p \in Paths : SaveIndex(p)
  \/ \E p \in Paths : LoadIndex(p)
  \/ \E p \in Paths, which \in {"faiss", "pkl"}, how \in {"delete", "corrupt"} :
       Damage(p, which, how)

Spec == Init /\ [][Next]_vars

\* only add_embeddings is called
NextAdd == \E arg \in MetaArgs : AddEmbeddings(arg)
SpecAdd == Init /\ [][NextAdd]_vars

\* add_embeddings, search and clear on one object
NextSearch ==
  \/ \E arg \in VectorArgs : AddEmbeddings(arg)
  \/ \E q \in Queries, k \in 1..MaxK : Search(q, k)
  \/ Clear
SpecSearch == Init /\ [][NextSearch]_vars

\* ===================================================== concurrent callers
\* Each thread makes one add_embeddings call on the shared object returned
\* by get_vector_store(); a further thread makes one save_index call.  The
\* interpreter may switch threads between any two of the steps below.
ThreadVector(t, w) == IF t = 1 THEN Vec(w, 1, 2) ELSE Vec(w, 2, 3)
ThreadText(t) == IF t = 1 THEN "ta" ELSE "tb"

\* the calls thread t may make on a store of dimension d: n chunks, the
\* metadata omitted or one dict per chunk
ConcArgs(t, d) ==
  {[embeddings |-> Array(d, [j \in 1..n |-> ThreadVector(t, d)]),
    text_chunks |-> [j \in 1..n |-> ThreadText(t)],
    metadata |-> md, images |-> <<>>] :
     n \in 1..MaxBatch,
     md \in {<<>>} \cup {[j \in 1..m |-> MetaDict(AbsentId, NoneVal, NoKey)] :
                           m \in {MaxBatch}}}

\* lines 74-96: the arguments are taken, validated and normalised
Call(t, arg) ==
  /\ pc[t] = "idle"
  /\ add_validation(store, arg) = ""
  /\ loc' = [loc EXCEPT ![t] = [NoLocals EXCEPT !.arg = arg,
                                   !.md = effective_metadata(arg),
                                   !.rows = normalized(arg.embeddings)]]
  /\ pc' = [pc EXCEPT ![t] = "l104"]
  /\ UNCHANGED <<store, faiss_files, pkl_files, seqVars, askVars, spc, sloc>>

\* line 104: start_idx = len(self.metadata)
L104(t) ==
  /\ pc[t] = "l104"
  /\ loc' = [loc EXCEPT ![t].start_idx = Len(store.metadata)]
  /\ pc' = [pc EXCEPT ![t] = "l105"]
  /\ UNCHANGED <<store, faiss_files, pkl_files, seqVars, askVars, spc, sloc>>

\* line 105: self.index.add(embeddings); the loop starts or is empty
L105(t) ==
  /\ pc[t] = "l105"
  /\ store' = [store EXCEPT !.index = index_add(@, loc[t].rows)]
  /\ pc' = [pc EXCEPT ![t] =
             IF ZipLen(loc[t].arg, loc[t].md) > 0 THEN "l110" ELSE "done"]
  /\ UNCHANGED <<faiss_files, pkl_files, seqVars, askVars, loc, spc, sloc>>

\* line 110: doc_id, its default read from self.next_id
L110(t) ==
  /\ pc[t] = "l110"
  /\ LET cm == loc[t].md[loc[t].i + 1]
     IN loc' = [loc EXCEPT ![t].doc_id =
                  IF cm.chunk_id = AbsentId THEN DocId(store.next_id)
                  ELSE cm.chunk_id]
  /\ pc' = [pc EXCEPT ![t] = "l111"]
  /\ UNCHANGED <<store, faiss_files, pkl_files, seqVars, askVars, spc, sloc>>

\* line 111: assigned_ids.append(self.next_id)
L111(t) ==
  /\ pc[t] = "l111"
  /\ loc' = [loc EXCEPT ![t].assigned_ids = Append(@, store.next_id)]
  /\ pc' = [pc EXCEPT ![t] = "l134"]
  /\ UNCHANGED <<store, faiss_files, pkl_files, seqVars, askVars, spc, sloc>>

\* lines 114-134: the record is built from locals and appended
L134(t) ==
  /\ pc[t] = "l134"
  /\ LET rec == faiss_metadata(loc[t].arg, loc[t].md, loc[t].i, 0,
                               loc[t].start_idx)
     IN store' = [store EXCEPT !.metadata =
                    Append(@, [rec EXCEPT !.id = loc[t].doc_id])]
  /\ pc' = [pc EXCEPT ![t] = "l135"]
  /\ UNCHANGED <<faiss_files, pkl_files, seqVars, askVars, loc, spc, sloc>>

\* line 135: self.id_to_index[self.next_id] = start_idx + i
L135(t) ==
  /\ pc[t] = "l135"
  /\ store' = [store EXCEPT !.id_to_index =
                 DictSet(@, store.next_id, loc[t].start_idx + loc[t].i)]
  /\ pc' = [pc EXCEPT ![t] = "l136r"]
  /\ UNCHANGED <<faiss_files, pkl_files, seqVars, askVars, loc, spc, sloc>>

\* line 136, first half: self.next_id is read
L136r(t) ==
  /\ pc[t] = "l136r"
  /\ loc' = [loc EXCEPT ![t].tmp = store.next_id]
  /\ pc' = [pc EXCEPT ![t] = "l136w"]
  /\ UNCHANGED <<store, faiss_files, pkl_files, seqVars, askVars, spc, sloc>>

\* line 136, second half: the sum is stored; the loop goes on or ends
L136w(t) ==
  /\ pc[t] = "l136w"
  /\ store' = [store EXCEPT !.next_id = loc[t].tmp + 1]
  /\ loc' = [loc EXCEPT ![t].i = @ + 1]
  /\ pc' = [pc EXCEPT ![t] =
             IF loc[t].i + 1 < ZipLen(loc[t].arg, loc[t].md) THEN "l110"
             ELSE "done"]
  /\ UNCHANGED <<faiss_files, pkl_files, seqVars, askVars, spc, sloc>>

SavePath == CHOOSE p \in Paths : TRUE

\* line 210: faiss.write_index(self.index, ...)
S210 ==
  /\ spc = "idle"
  /\ faiss_files' = [faiss_files EXCEPT ![SavePath] = WrittenFile(store.index)]
  /\ spc' = "s213"
  /\ UNCHANGED <<store, pkl_files, seqVars, askVars, pc, loc, sloc>>

\* lines 213-219: the dict takes the counter and the configuration by value,
\* the metadata list and the id map by reference
S213 ==
  /\ spc = "s213"
  /\ sloc' = [next_id |-> store.next_id, dimension |-> store.dimension,
              index_type |-> store.index_type]
  /\ spc' = "s222"
  /\ UNCHANGED <<store, faiss_files, pkl_files, seqVars, askVars, pc, loc>>

\* line 222: pickle.dump writes the list and the map as they are now
S222 ==
  /\ spc = "s222"
  /\ pkl_files' = [pkl_files EXCEPT ![SavePath] =
        WrittenFile([metadata |-> store.metadata,
                     id_to_index |-> store.id_to_index,
                     next_id |-> sloc.next_id, dimension |-> sloc.dimension,
                     index_type |-> sloc.index_type])]
  /\ spc' = "done"
  /\ UNCHANGED <<store, faiss_files, seqVars, askVars, pc, loc, sloc>>

\* one step of thread t inside add_embeddings
AddStep(t) ==
  \/ \E arg \in ConcArgs(t, store.dimension) : Call(t, arg)
  \/ L104(t)
  \/ L105(t)
  \/ L110(t)
  \/ L111(t)
  \/ L134(t)
  \/ L135(t)
  \/ L136r(t)
  \/ L136w(t)

\* two threads in add_embeddings
NextConc == \E t \in Threads : AddStep(t)
SpecConc == Init /\ [][NextConc]_vars

\* one thread in add_embeddings, one in save_index
Adder == CHOOSE t \in Threads : TRUE
NextSave ==
  \/ AddStep(Adder)
  \/ S210
  \/ S213
  \/ S222
SpecSave == Init /\ [][NextSave]_vars

\* ===================================================== answering a question
\* ------------------------------------------------- the chain, stepwise
\* complete_chain: the steps RunnableSequence.invoke runs, in order
\* a composition that reranks before it has retrieved
Chain_reranks_first ==
  <<"input_validations", "content_filter_llm", "input_validations_with_llm",
    "rewrite_user_question", "rerank_results", "retrieve_context",
    "generate_llm_response", "output_basic_validations", "sanitize_content",
    "output_validations_with_llm", "enhance_response_quality">>

Chain ==
  <<"input_validations", "content_filter_llm", "input_validations_with_llm",
    "rewrite_user_question", "retrieve_context", "rerank_results",
    "generate_llm_response", "output_basic_validations", "sanitize_content",
    "output_validations_with_llm", "enhance_response_quality">>

\* a sequence that runs its next step whatever the last one did
invoke_next_ignores_raise(step, r) ==
  LET k == CHOOSE j \in DOMAIN Chain : Chain[j] = step
  IN IF k = Len(Chain) THEN "return" ELSE Chain[k + 1]

\* what runs after step has ended as r: an exception leaves the sequence
invoke_next(step, r) ==
  LET k == CHOOSE j \in DOMAIN Chain : Chain[j] = step
  IN IF r.raised # "" THEN "return"
     ELSE IF k = Len(Chain) THEN "return"
     ELSE Chain[k + 1]

\* answer_user_question(question) is called: the chain gets the question
Ask(question, key) ==
  /\ apc \in {"idle", "done"}
  /\ env' = [question |-> question, key |-> key]
  /\ flow' = Ret(StrFlow(question), 0)
  /\ trace' = <<>>
  /\ reply' = NoFlow
  /\ apc' = Chain[1]
  /\ UNCHANGED <<store, faiss_files, pkl_files, seqVars, concVars>>

\* one step of the chain runs and ends as r, its collaborator having done out
Advance(step, out, r) ==
  /\ apc = step
  /\ trace' = Append(trace, [step |-> step, arg |-> flow.value,
                            out |-> IF r.calls = 0 THEN NoOut ELSE out,
                            res |-> r])
  /\ flow' = r
  /\ apc' = invoke_next(step, r)
  /\ UNCHANGED <<store, faiss_files, pkl_files, seqVars, concVars, reply, env>>

InputValidations ==
  Advance("input_validations", NoOut, input_validations(flow.value.str))

ContentFilter(outs) ==
  \E out \in outs :
    Advance("content_filter_llm", out,
            content_filter_llm(flow.value.str, env.key, out))

ValidityCheck(outs) ==
  \E out \in outs :
    Advance("input_validations_with_llm", out,
            input_validations_with_llm(flow.value.str, env.key, out))

Rewrite(outs) ==
  \E out \in outs :
    Advance("rewrite_user_question", out,
            rewrite_user_question(flow.value.str, env.key, out))

Retrieve(outs, factory) ==
  \E out \in outs :
    Advance("retrieve_context", out,
            retrieve_context(flow.value.str, vector_store(factory, store), out))

\* the cross-encoder fails, or gives every text it is asked about a score
Rerank(scores, fails) ==
  \E out \in {[NoOut EXCEPT !.scores = sc] :
                sc \in [1..Len(docs_to_rank(flow.value.sources)) -> scores]}
               \cup (IF fails THEN {Fails} ELSE {}) :
    Advance("rerank_results", out, rerank_results(flow.value, out))

Generate(outs) ==
  \E out \in outs :
    Advance("generate_llm_response", out,
            generate_llm_response(flow.value, out))

OutputBasic ==
  Advance("output_basic_validations", NoOut,
          output_basic_validations(flow.value))

Sanitize == Advance("sanitize_content", NoOut, sanitize_content(flow.value))

OutputCheck(outs) ==
  \E out \in outs :
    Advance("output_validations_with_llm", out,
            output_validations_with_llm(flow.value, env.key, out))

Enhance(outs) ==
  \E out \in outs :
    Advance("enhance_response_quality", out,
            enhance_response_quality(flow.value, env.key, out))

\* answer_user_question returns: the result, or what its handlers build
Return ==
  /\ apc = "return"
  /\ reply' = answer_user_question(env.question, flow)
  /\ apc' = "done"
  /\ UNCHANGED <<store, faiss_files, pkl_files, seqVars, concVars, flow,
                 trace, env>>

\* the ingestion service hands chunks to the store, between two questions;
\* the record of the question answered before is dropped
Ingest(arg) ==
  /\ apc \in {"idle", "done"}
  /\ ntotal(store.index) + Len(arg.embeddings.rows) <= MaxChunks
  /\ store' = transform_pdf_to_embeddings(store, arg).store
  /\ last' = [op |-> "ingest", arg |-> arg,
              result |-> transform_pdf_to_embeddings(store, arg).result]
  /\ apc' = "idle"
  /\ flow' = Ret(NoFlow, 0)
  /\ trace' = <<>>
  /\ reply' = NoFlow
  /\ env' = [question |-> <<>>, key |-> FALSE]
  /\ UNCHANGED <<faiss_files, pkl_files, issued, concVars>>

\* full_output_guardrail_chain is invoked on the response of a generation
\* step whose model has written answer
Validate(answer, key) ==
  /\ apc \in {"idle", "done"}
  /\ env' = [question |-> <<[ch |-> "Q", n |-> 5]>>, key |-> key]
  /\ flow' = Ret([NoFlow EXCEPT
                    !.type = "dict",
                    !.keys = {"success", "answer", "question", "sources",
                              "images", "total_results", "llm_metadata",
                              "has_results"},
                    !.success = TRUE, !.has_results = TRUE,
                    !.answer = answer,
                    !.question = <<[ch |-> "Q", n |-> 5]>>], 0)
  /\ trace' = <<>>
  /\ reply' = NoFlow
  /\ apc' = "output_basic_validations"
  /\ UNCHANGED <<store, faiss_files, pkl_files, seqVars, concVars>>

\* one question answered with the collaborators behaving as P allows
AskStep(P) ==
  \/ \E q \in P.questions, key \in P.keys : Ask(q, key)
  \/ InputValidations
  \/ ContentFilter(P.filter)
  \/ ValidityCheck(P.validity)
  \/ Rewrite(P.rewriter)
  \/ Retrieve(P.embedder, P.factory)
  \/ Rerank(P.scores, P.scorer_fails)
  \/ Generate(P.generator)
  \/ OutputBasic
  \/ Sanitize
  \/ OutputCheck(P.classifier)
  \/ Enhance(P.enhancer)
  \/ Return

\* ---------------------------------------------------------- the inputs
\* a question: lead blanks, core characters of the text Q, trail blanks
Q(lead, core, trail) ==
  concat(Run(" ", lead), concat(Run("Q", core), Run(" ", trail)))

\* two passages: a short one, and one whose 500th character is a blank
PassageA == Run("A", 120)
PassageB == concat(Run("B", 498), concat(Run(" ", 4), Run("B2", 100)))

ChunkArgs(d) ==
  {[embeddings |-> Array(d, <<v>>), text_chunks |-> <<t>>,
    metadata |-> <<MetaDict(AbsentId, 0, NoKey)>>,
    images |-> <<Img(0, "a"), Img(0, "b")>>] :
     v \in OneVector(d), t \in {PassageA, PassageB}}

\* what the extractor and the embedder make of a PDF, for a store of
\* dimension d: no text at all; a chunk on page 2 and a chunk without a
\* page, with two images on page 2; a chunk on page 0, with four images on
\* page 0 and one on page 1
PdfArgs(d) ==
  {[embeddings |-> Array(d, [j \in 1..Len(c.metadata) |-> Vec(d, 1, 2)]),
    text_chunks |-> [j \in 1..Len(c.metadata) |-> PassageA],
    metadata |-> c.metadata, images |-> c.images] :
     c \in {[metadata |-> <<>>, images |-> <<>>],
            [metadata |-> <<MetaDict(AbsentId, 2, NoKey),
                            MetaDict(AbsentId, NoneVal, NoKey)>>,
             images |-> <<Img(2, "a"), Img(2, "b")>>],
            [metadata |-> <<MetaDict(AbsentId, 0, NoKey)>>,
             images |-> <<Img(0, "a"), Img(0, "b"), Img(1, "c"),
                          Img(0, "d"), Img(0, "e")>>]}}

\* What the collaborators of a call may do, per specification. Padded is a
\* model's reply with a blank on either side.
Profile ==
  LET Padded(word) == concat(Run(" ", 1), concat(word, Run(" ", 1)))
      \* every collaborator does the one usual thing
      Usual ==
        [questions |-> {Q(0, 5, 0)}, keys |-> {TRUE},
         filter |-> {Says(Run("CLEAN", 5))},
         validity |-> {Says(Run("VALID", 5))},
         rewriter |-> {Says(Run("R", 40))},
         embedder |-> {[NoOut EXCEPT !.vec = Vec(2, 1, 2)]},
         scores |-> {1}, scorer_fails |-> FALSE,
         generator |-> {Says(Run("G", 80))},
         classifier |-> {Says(Run("VALID", 5))},
         enhancer |-> {Fails},
         answers |-> {},
         factory |-> "get_vector_store"]
  IN [\* the input side: every kind of question, key, verdict and rewrite
      input |->
        [Usual EXCEPT
           !.questions = {Q(0, 0, 0), Q(3, 0, 0), Q(0, 5, 0), Q(2, 5, 1),
                          Q(0, MaxInputLength, 0), Q(0, MaxInputLength + 1, 0),
                          Q(1, MaxInputLength - 2, 1),
                          Q(1, MaxInputLength - 1, 1)},
           !.keys = BOOLEAN,
           !.filter = {Says(Run("CLEAN", 5)), Says(Padded(Run("flagged", 7))),
                       Fails},
           !.validity = {Says(Run("VALID", 5)), Says(Run("INVALID_CONTENT", 15)),
                         Says(Padded(Run("invalid_spam", 12))),
                         Says(Run("INVALID_IRRELEVANT", 18)),
                         Says(Run("INVALID_INJECTION", 17)), Fails},
           !.rewriter = {Says(Run("R", 40)), Fails}],
      \* the retrieval side: the store's content, the embedder, the scorer
      \* and the text generator vary
      retrieve |->
        [Usual EXCEPT
           !.rewriter = {Says(Run("R", 40)), Fails},
           !.embedder = {[NoOut EXCEPT !.vec = Vec(2, 1, 2)], Fails},
           !.scores = {1, 2}, !.scorer_fails = TRUE,
           !.generator = {Says(Run("G", 80)), Fails},
           !.enhancer = {Says(Run("E", 128)), Says(Padded(Run("E", 131))),
                         Fails}],
      \* the output side, on an empty store: the output classifier and the
      \* enhancer vary
      output |->
        [Usual EXCEPT
           !.keys = BOOLEAN,
           !.embedder = {[NoOut EXCEPT !.vec = Vec(2, 1, 2)], Fails},
           !.classifier = {Says(Run("VALID", 5)),
                           Says(Run("INVALID_INCOHERENT", 18)),
                           Says(Run("unsure", 6)), Fails},
           !.enhancer = {Says(Padded(Run("E", 200))), Says(Run("E", 20)),
                         Says(Run("E", MaxAnswerLength + 1)), Fails}],
      \* the output chain alone: the generated answer, the classifier and
      \* the enhancer vary
      guard |->
        [Usual EXCEPT
           !.keys = BOOLEAN,
           !.answers =
             {<<>>, Run(" ", 4), Padded(Run("A", MinAnswerLength - 1)),
              Padded(Run("A", MinAnswerLength)),
              Run("A", MaxAnswerLength), Run("A", MaxAnswerLength + 1),
              Run("<b>", 3) \o Run("A", 5) \o Run("</b>", 4),
              Run("x", 40),
              Run("A", MaxAnswerLength - 10) \o Run(" ", 1)
                \o Run("http://u", 8) \o Run("tail", 2)},
           !.classifier = {Says(Run("VALID", 5)),
                           Says(Run("INVALID_INAPPROPRIATE", 21)),
                           Says(Padded(Run("INVALID_INCOHERENT", 18))),
                           Says(Run("INVALID_UNPROFESSIONAL", 22)),
                           Says(Run("INVALID_MISINFORMATION", 22)),
                           Says(Run("INVALID_INCOMPLETE", 18)), Fails},
           !.enhancer = {Says(Run("E", 8)), Says(Padded(Run("E", 9))),
                         Fails}],
      \* the services made by create_ingestion_service and
      \* create_chatbot_service
      created |-> [Usual EXCEPT !.factory = "create_vector_store"]]

NextInput == AskStep(Profile.input)
SpecInput == Init /\ [][NextInput]_vars

NextRetrieve ==
  \/ AskStep(Profile.retrieve)
  \/ \E arg \in ChunkArgs(store.dimension) : Ingest(arg)
SpecRetrieve == Init /\ [][NextRetrieve]_vars

NextOutput == AskStep(Profile.output)
SpecOutput == Init /\ [][NextOutput]_vars

NextIngest ==
  \/ AskStep(Profile.created)
  \/ \E arg \in PdfArgs(store.dimension) : Ingest(arg)
SpecIngest == Init /\ [][NextIngest]_vars

NextGuard ==
  \/ \E answer \in Profile.guard.answers, key \in Profile.guard.keys :
       Validate(answer, key)
  \/ OutputBasic
  \/ Sanitize
  \/ OutputCheck(Profile.guard.classifier)
  \/ Enhance(Profile.guard.enhancer)
  \/ Return
SpecGuard == Init /\ [][NextGuard]_vars

\* ================================================================ claims
StrictlyIncreasing(sq) == \A i, j \in DOMAIN sq : i < j => sq[i] < sq[j]

\* C1: after any sequence of add_embeddings calls that pass add's validation,
\* total_vectors equals metadata_count, and the ids the calls returned are
\* strictly increasing in call-then-input order (hence pairwise distinct).
C1_CountAndIds ==
  /\ get_stats(store).total_vectors = get_stats(store).metadata_count
  /\ last.op = "add" =>
       /\ StrictlyIncreasing(last.ids)
       /\ \A a \in issued \ Range(last.ids), b \in Range(last.ids) : a < b

\* C2: an add_embeddings call whose vector count differs from its text count,
\* or whose vector width differs from the configured dimension, raises and
\* leaves index, metadata, id map and next-id counter as they were.
C2_InvalidAddLeavesStore ==
  [][(last'.op = "add" /\ (last'.n_emb # last'.n_txt \/ last'.w # store.dimension))
       => (last'.outcome = "ValueError" /\ store' = store)]_vars

C2_Witness ==
  /\ last.op = "add"
  /\ last.outcome = "ValueError"
  /\ last.w = store.dimension
  /\ last.n_emb > last.n_txt
  /\ ntotal(store.index) > 0

\* C3: no id value is returned by add_embeddings more than once on one
\* store object, whatever add (also failing part-way), clear and load_index
\* calls are made in between.
C3_IdsNeverReused ==
  [][last'.op = "add" => Range(last'.ids) \cap issued = {}]_vars

\* C4: search returns at most k results, in order of non-decreasing distance,
\* that is of non-increasing similarity.
C4_SearchBoundedSorted ==
  last.op = "search" =>
    /\ Len(last.results) <= last.k
    /\ \A i, j \in DOMAIN last.results : i < j =>
         /\ last.results[i].distance <= last.results[j].distance
         /\ last.results[i].similarity >= last.results[j].similarity

C4_Witness ==
  /\ last.op = "search"
  /\ last.outcome = "ok"
  /\ Len(last.results) = 2
  /\ last.results[1].distance < last.results[2].distance
  /\ last.results[1].faiss_index > last.results[2].faiss_index

\* C5: search with a query of the configured width on a store holding n
\* entries returns exactly min(k, n) results and does not raise; on an empty
\* store it returns the empty list.
C5_SearchReturnsMinKN ==
  (last.op = "search" /\ last.w = store.dimension) =>
    /\ last.outcome = "ok"
    /\ \E n \in {get_stats(store).total_vectors, get_stats(store).metadata_count} :
         Len(last.results) = Min(last.k, n)

\* C6: save_index followed by load_index into a fresh store reproduces the
\* saved store: same get_stats, metadata, id map and next-id counter, and the
\* same ordered search results for every query.
C6_SaveLoadRoundTrip ==
  /\ \A d \in Dims :
       LET f == save_index(store)
           r == load_index(FAISSVectorStore(d), f.faiss, f.pkl)
       IN /\ r.outcome = "ok"
          /\ r.store = store
          /\ get_stats(r.store) = get_stats(store)
          /\ \A q \in Queries, k \in 1..MaxK : search(r.store, q, k) = search(store, q, k)
  /\ last.op = "save" =>
       /\ faiss_files[last.path] = WrittenFile(store.index)
       /\ pkl_files[last.path] = WrittenFile(metadata_dict(store))
  /\ (last.op = "load" /\ last.outcome = "ok") =>
       /\ faiss_files[last.path] = WrittenFile(store.index)
       /\ pkl_files[last.path] = WrittenFile(metadata_dict(store))

C6_Witness ==
  /\ last.op = "load"
  /\ last.outcome = "ok"
  /\ last.fresh
  /\ ntotal(store.index) > 0
  /\ store.next_id > 0

\* C7: load_index raises when either file is missing or when the persisted
\* dimension differs from the dimension the receiving store was built with.
C7_LoadRejectsMismatch ==
  [][(/\ last'.op = "load"
      /\ \/ ~faiss_files[last'.path].exists
         \/ ~pkl_files[last'.path].exists
         \/ /\ pkl_files[last'.path].readable
            /\ pkl_files[last'.path].content.dimension # store.dimension)
       => last'.outcome # "ok"]_vars

\* C8: a load_index call that raises leaves the in-memory store as it was.
C8_FailedLoadLeavesStore ==
  [][(last'.op = "load" /\ last'.outcome # "ok") => store' = store]_vars

\* C9: when two concurrent add_embeddings calls have both returned, every
\* record's faiss_index is its position in the metadata list and the position
\* of its vector in the index, the id map is injective, and the ids assigned
\* by the two calls are disjoint.
OwnerOf(text) == CHOOSE t \in Threads : ThreadText(t) = text

C9_ConcurrentAddsSerialized ==
  (\A t \in Threads : pc[t] = "done") =>
    /\ \A i \in 1..Len(store.metadata) :
         /\ store.metadata[i].faiss_index = i - 1
         /\ i <= ntotal(store.index)
         /\ store.index.rows[i] =
              normalize_L2(ThreadVector(OwnerOf(store.metadata[i].text), store.dimension))
    /\ \A a, b \in DOMAIN store.id_to_index :
         a # b => store.id_to_index[a] # store.id_to_index[b]
    /\ \A t, u \in Threads :
         t # u => Range(loc[t].assigned_ids) \cap Range(loc[u].assigned_ids) = {}

\* C10: every snapshot save_index has written, also with an add in flight,
\* holds as many vectors in the index file as records in the metadata file,
\* and a next_id equal to that count.
C10_SnapshotConsistent ==
  spc = "done" =>
    /\ ntotal(faiss_files[SavePath].content)
         = Len(pkl_files[SavePath].content.metadata)
    /\ pkl_files[SavePath].content.next_id
         = Len(pkl_files[SavePath].content.metadata)

\* ------------------------------------------------ answering a question
Ran(step) == \E j \in DOMAIN trace : trace[j].step = step
InputSteps == {Chain[1], Chain[2], Chain[3]}
InputRejected ==
  \E j \in DOMAIN trace :
    trace[j].step \in InputSteps /\ trace[j].res.raised = "ValueError"
Blank(s) == \A j \in DOMAIN s : s[j].ch = " "

\* C11: when the input guardrail rejects the question (empty, too long, or
\* flagged by a classifier), nothing after the input guardrail runs for it
\* (no rewrite, embedding, search, generation or output-guardrail step), and
\* ask returns a failure payload with empty sources and images.
C11_RejectionStopsPipeline ==
  InputRejected =>
    /\ \A j \in DOMAIN trace : trace[j].step \in InputSteps
    /\ trace[Len(trace)].res.raised = "ValueError"
    /\ apc \in {"return", "done"}
    /\ apc = "done" =>
         /\ reply.success = FALSE
         /\ reply.sources = <<>> /\ reply.images = <<>>
         /\ {"success", "answer", "sources", "images"} \subseteq reply.keys

C11_Witness ==
  /\ apc = "done"
  /\ trace[Len(trace)].step = "content_filter_llm"
  /\ trace[Len(trace)].res.msg = InputMessage.flagged
  /\ reply.answer = InputMessage.flagged

\* C12: whenever the semantic validity classifier answers INVALID_CONTENT,
\* INVALID_SPAM, INVALID_IRRELEVANT or INVALID_INJECTION, the input chain
\* raises a validation failure, and ask returns a failure payload instead of
\* going on to rewrite and retrieval.
C12_ValidityVerdictRejects ==
  \A j \in DOMAIN trace :
    ( /\ trace[j].step = "input_validations_with_llm"
      /\ trace[j].res.calls = 1 /\ ~trace[j].out.err
      /\ ValidityMsg(upper(strip(trace[j].out.text))) # <<>> )
    => /\ trace[j].res.raised = "ValueError"
       /\ ~Ran("rewrite_user_question") /\ ~Ran("retrieve_context")
       /\ apc = "done" => reply.validation_failed

\* C13: when an LLM-backed input sub-check (content filter, validity
\* classifier) errors instead of giving a verdict, the question goes through
\* unchanged and the chain continues; the error never makes ask fail.
C13_ErroringSubCheckAllows ==
  \A j \in DOMAIN trace :
    ( /\ trace[j].step \in {"content_filter_llm", "input_validations_with_llm"}
      /\ (~env.key \/ (trace[j].res.calls = 1 /\ trace[j].out.err)) )
    => /\ trace[j].res.raised = ""
       /\ trace[j].res.value = StrFlow(trace[j].arg.str)

\* C14: the basic input check rejects a question exactly when it has no
\* character left after trimming or more than 300 characters (300 is
\* accepted, 301 rejected), and hands an accepted question on trimmed.
C14_BasicInputCheck ==
  \A j \in DOMAIN trace :
    trace[j].step = "input_validations" =>
      LET question == trace[j].arg.str
          r == trace[j].res
      IN /\ r.raised = "ValueError" <=> (Blank(question) \/ len(question) > 300)
         /\ r.raised \in {"", "ValueError"}
         /\ r.raised = "" =>
              /\ r.value.type = "str"
              /\ ~Blank(<<r.value.str[1]>>)
              /\ ~Blank(<<r.value.str[Len(r.value.str)]>>)
              /\ \E a, b \in 0..len(question) :
                   question = concat(Run(" ", a), concat(r.value.str, Run(" ", b)))

C14_Witness ==
  \E j \in DOMAIN trace :
    /\ trace[j].step = "input_validations"
    /\ len(trace[j].arg.str) = 300
    /\ trace[j].res.raised = ""
    /\ len(trace[j].res.value.str) = 298

\* C15: when the rewrite call fails the chain goes on, and the question the
\* retrieve step gets is exactly the validated question, not rewritten.
C15_RewriteFailureKeepsQuestion ==
  \A j \in DOMAIN trace :
    ( /\ trace[j].step = "rewrite_user_question"
      /\ (~env.key \/ (trace[j].res.calls = 1 /\ trace[j].out.err)) )
    => /\ trace[j].res.raised = ""
       /\ j > 1 /\ trace[j - 1].step = "input_validations_with_llm"
       /\ trace[j].res.value = trace[j - 1].res.value
       /\ trace[j].res.value.str = strip(env.question)
       /\ Len(trace) = j => apc = "retrieve_context" /\ flow = trace[j].res
       /\ Len(trace) > j =>
            /\ trace[j + 1].step = "retrieve_context"
            /\ trace[j + 1].arg.str = trace[j - 1].res.value.str
            /\ trace[j + 1].res.value.question = trace[j - 1].res.value.str

C15_Witness ==
  \E j \in DOMAIN trace :
    /\ trace[j].step = "rewrite_user_question" /\ trace[j].out.err
    /\ Len(trace) > j /\ trace[j + 1].step = "retrieve_context"
    /\ trace[j + 1].arg.str = Q(0, 5, 0)
    /\ env.question = Q(2, 5, 1)

ZeroResults ==
  \E j \in DOMAIN trace :
    trace[j].step = "retrieve_context" /\ ~trace[j].res.value.has_results
GeneratorCalls ==
  IF Ran("generate_llm_response")
  THEN trace[CHOOSE j \in DOMAIN trace :
               trace[j].step = "generate_llm_response"].res.calls
  ELSE 0
\* the enhancement pass put the enhancer's text in the place of the answer
EnhancedReply ==
  /\ reply.enhanced
  /\ reply.answer = strip(trace[Len(trace)].out.text)

\* C16 as stated: when retrieval yields zero results, ask returns
\* success=false with the answer text that says no relevant information was
\* found (possibly reworded by the enhancement pass), empty sources and
\* images, and the generation model is not called.
C16_ZeroResultsReply ==
  (apc = "done" /\ ZeroResults) =>
    /\ reply.success = FALSE
    /\ reply.answer = ServiceMessage.no_context \/ EnhancedReply
    /\ reply.sources = <<>> /\ reply.images = <<>>
    /\ GeneratorCalls = 0

\* C16 as amended: with zero results the generation step makes no model call
\* and produces success=false, has_results=false, the no-information text,
\* empty sources and images; ask returns success=false with empty sources
\* and images, and its answer is that text (possibly reworded by the
\* enhancement pass) unless the output classifier rejects it, in which case
\* the answer is the rejection message.
C16_ZeroResultsAnswer ==
  /\ \A j \in DOMAIN trace :
       (trace[j].step = "generate_llm_response" /\ ZeroResults) =>
         /\ trace[j].res.calls = 0
         /\ trace[j].res.raised = ""
         /\ trace[j].res.value.success = FALSE
         /\ trace[j].res.value.has_results = FALSE
         /\ trace[j].res.value.answer = ServiceMessage.no_context
         /\ trace[j].res.value.sources = <<>>
         /\ trace[j].res.value.images = <<>>
         /\ trace[j].res.value.llm_metadata.reason = "no_context"
  /\ (apc = "done" /\ ZeroResults) =>
       /\ reply.success = FALSE
       /\ reply.sources = <<>> /\ reply.images = <<>>
       /\ GeneratorCalls = 0
       /\ \/ reply.answer = ServiceMessage.no_context
          \/ EnhancedReply
          \/ /\ trace[Len(trace)].step = "output_validations_with_llm"
             /\ trace[Len(trace)].res.raised = "ValueError"
             /\ OutputVerdictMsg(upper(strip(trace[Len(trace)].out.text))) # <<>>
             /\ reply.answer = OutputVerdictMsg(upper(strip(trace[Len(trace)].out.text)))

C16_Witness ==
  /\ apc = "done" /\ ZeroResults
  /\ Ran("enhance_response_quality")
  /\ reply.answer = ServiceMessage.no_context
  /\ ~reply.has_results /\ "has_results" \in reply.keys

\* the generation step ran on retrieved context and the chain manager's
\* attempt to generate raised
GenerationRaised(e) ==
  /\ e.step = "generate_llm_response"
  /\ e.arg.has_results
  /\ e.res.value.llm_metadata.reason = "llm_error"

\* C17 as stated: when the generation call raises, the generation step's
\* answer is the first 500 characters of the retrieved context followed by
\* an ellipsis, and the result is marked fallback_used=true.
C17_FallbackIsContextPrefix ==
  \A j \in DOMAIN trace :
    GenerationRaised(trace[j]) =>
      /\ trace[j].res.value.answer =
           concat(prefix(trace[j].arg.context, 500), Run(".", 3))
      /\ trace[j].res.value.llm_metadata.fallback_used

\* C17 as amended: when the generation call raises, the generation step's
\* answer is the words "Basandome en la informacion disponible: " followed
\* by the first 500 characters of the retrieved context, trimmed, and by an
\* ellipsis only when the context is longer than 500 characters (a fixed
\* apology when the context is blank); the result is marked
\* fallback_used=true with an error recorded, so it differs from a
\* model-backed answer.
C17_FallbackAnswer ==
  \A j \in DOMAIN trace :
    GenerationRaised(trace[j]) =>
      LET context == trace[j].arg.context
          answer == trace[j].res.value.answer
          head == strip(prefix(context, 500))
      IN /\ trace[j].res.raised = ""
         /\ ~Blank(context) =>
              /\ len(context) > 500 =>
                   answer = concat(FallbackMessage.prefix, concat(head, Run(".", 3)))
              /\ len(context) <= 500 => answer = concat(FallbackMessage.prefix, head)
         /\ Blank(context) => answer = FallbackMessage.cannot_process
         /\ trace[j].res.value.llm_metadata.fallback_used
         /\ "error" \in trace[j].res.value.llm_metadata.keys

C17_Witness ==
  \E j \in DOMAIN trace :
    /\ GenerationRaised(trace[j])
    /\ trace[j].arg.context = PassageB
    /\ len(trace[j].res.value.answer) = 40 + 498 + 3

\* C18: when retrieval has results and the text generator does not fail,
\* the generation step invokes the generator exactly once and returns the
\* model's text as the answer, with success=true and no fallback.
C18_GeneratorInvokedOnce ==
  \A j \in DOMAIN trace :
    ( /\ trace[j].step = "generate_llm_response"
      /\ trace[j].arg.has_results
      /\ ~trace[j].out.err )
    => /\ trace[j].res.calls = 1
       /\ trace[j].res.value.answer = trace[j].out.text
       /\ trace[j].res.value.success
       /\ ~trace[j].res.value.llm_metadata.fallback_used

\* the scorer was called and failed
ScoringFailed(e) == e.step = "rerank_results" /\ e.res.calls = 1 /\ e.out.err
ScoringDone(e) == e.step = "rerank_results" /\ e.res.calls = 1 /\ ~e.out.err

\* C19: when reranker scoring fails the rerank step does not fail the chain:
\* it passes on the sources in their retrieved order and the context as it
\* was, and records the fallback (reranking_applied=false and the error).
C19_ScoringFailureKeepsOrder ==
  \A j \in DOMAIN trace :
    ScoringFailed(trace[j]) =>
      LET given == trace[j].arg
          passed == trace[j].res.value
      IN /\ trace[j].res.raised = ""
         /\ passed.sources = given.sources
         /\ passed.context = given.context
         /\ passed.question = given.question /\ passed.images = given.images
         /\ passed.has_results = given.has_results
         /\ {"reranking_applied", "reranking_error"} \subseteq passed.keys
         /\ passed.reranking_applied = FALSE
         /\ passed.reranking_error # <<>>
         /\ Len(trace) = j => apc = "generate_llm_response"
         /\ Len(trace) > j =>
              /\ trace[j + 1].step = "generate_llm_response"
              /\ trace[j + 1].arg = passed

C19_Witness ==
  \E j \in DOMAIN trace :
    /\ ScoringFailed(trace[j])
    /\ Len(trace[j].arg.sources) = 3
    /\ trace[j].arg.context = PassageA
    /\ Len(trace) > j

\* C20: when more than one candidate is retrieved and scoring succeeds, the
\* rerank step outputs the (at most 3) best-scored of the retrieved sources,
\* each once, in non-increasing order of the score computed for its own
\* text; with zero or one candidate the context data passes through as is.
C20_RerankOrdersByScore ==
  \A j \in DOMAIN trace :
    trace[j].step = "rerank_results" =>
      LET given == trace[j].arg.sources
          scores == trace[j].out.scores
          ranked == trace[j].res.value.sources
      IN /\ Len(given) <= 1 => trace[j].res = Ret(trace[j].arg, 0)
         /\ (Len(given) > 1 /\ ScoringDone(trace[j])) =>
              /\ Len(scores) = Len(given)
              /\ Len(ranked) = Min(3, Len(given))
              /\ \E p \in [DOMAIN ranked -> DOMAIN given] :
                   /\ \A a, b \in DOMAIN ranked : a # b => p[a] # p[b]
                   /\ \A a \in DOMAIN ranked : ranked[a] = given[p[a]]
                   /\ \A a, b \in DOMAIN ranked :
                        a < b => scores[p[a]] >= scores[p[b]]
                   /\ \A a \in DOMAIN ranked, m \in DOMAIN given :
                        (\A b \in DOMAIN ranked : p[b] # m) =>
                          scores[p[a]] >= scores[m]
              /\ trace[j].res.value.reranking_applied

C20_Witness ==
  \E j \in DOMAIN trace :
    /\ ScoringDone(trace[j])
    /\ Len(trace[j].arg.sources) = 3
    /\ trace[j].out.scores = <<1, 2, 2>>
    /\ trace[j].res.value.sources =
         <<trace[j].arg.sources[2], trace[j].arg.sources[3],
           trace[j].arg.sources[1]>>

\* the entries of the trace where the enhancement step ran
Enhanced(e) == e.step = "enhance_response_quality"

\* C21: the enhancement pass replaces the answer with the (trimmed) enhanced
\* text if and only if that text is at least 80% as long as the original
\* answer, exactly 80% included; otherwise, and when the enhancer errors, the
\* original answer is kept and the response is marked not enhanced.
C21_EnhancerEightyPercent ==
  \A j \in DOMAIN trace :
    Enhanced(trace[j]) =>
      LET answer == trace[j].arg.answer
          enhanced_answer == strip(trace[j].out.text)
          res == trace[j].res.value
          errored == trace[j].res.calls = 0 \/ trace[j].out.err
          accepted == ~errored /\ 10 * len(enhanced_answer) >= 8 * len(answer)
      IN /\ trace[j].res.raised = ""
         /\ res.enhanced = accepted
         /\ res.answer = IF accepted THEN enhanced_answer ELSE answer

\* the answer a step was given breaks a structural bound
BadStructure(answer) ==
  \/ len(strip(answer)) < MinAnswerLength
  \/ len(answer) > MaxAnswerLength

\* an output step that has to reject the answer it was given: a structural
\* check given a bad answer, or the classifier step whose model gave one of
\* the five rejecting verdicts
OutputMustReject(e) ==
  \/ /\ e.step \in {"output_basic_validations", "output_validations_with_llm"}
     /\ BadStructure(e.arg.answer)
  \/ /\ e.step = "output_validations_with_llm"
     /\ e.res.calls = 1 /\ ~e.out.err
     /\ upper(strip(e.out.text)) \in
          {Run("INVALID_INAPPROPRIATE", 21), Run("INVALID_INCOHERENT", 18),
           Run("INVALID_UNPROFESSIONAL", 22), Run("INVALID_MISINFORMATION", 22),
           Run("INVALID_INCOMPLETE", 18)}

\* C22: the output chain is fail-fast: when the structural check (empty,
\* shorter than 10, longer than 5000 characters) or the output classifier
\* (one of its five INVALID_* verdicts) rejects an answer, the step raises a
\* validation failure, no later output step runs (no enhancement call), and
\* ask returns a failure payload that does not hold the rejected answer.
C22_OutputFailFast ==
  \A j \in DOMAIN trace :
    OutputMustReject(trace[j]) =>
      /\ trace[j].res.raised = "ValueError"
      /\ j = Len(trace)
      /\ ~Ran("enhance_response_quality")
      /\ apc \in {"return", "done"}
      /\ apc = "done" =>
           /\ ~reply.success /\ reply.validation_failed
           /\ reply.answer = trace[j].res.msg
           /\ reply.answer # trace[j].arg.answer
           /\ reply.error # trace[j].arg.answer
           /\ reply.sources = <<>> /\ reply.images = <<>>

\* the classifier rejected a sanitized answer, and ask has returned
C22_Witness ==
  /\ apc = "done"
  /\ Ran("sanitize_content")
  /\ trace[Len(trace)].step = "output_validations_with_llm"
  /\ upper(strip(trace[Len(trace)].out.text)) = Run("INVALID_INCOHERENT", 18)
  /\ reply.answer = OutputMessage.incoherent

\* C23: answer_user_question never raises: whatever the question and
\* whichever stage or collaborator fails, it returns a dictionary with
\* success, answer, sources and images; when the chain ended in a guardrail
\* rejection or another exception, success is false and sources and images
\* are empty.
C23_AskAlwaysReturnsDict ==
  apc = "done" =>
    /\ reply.type = "dict"
    /\ {"success", "answer", "sources", "images"} \subseteq reply.keys
    /\ flow.raised # "" =>
         ~reply.success /\ reply.sources = <<>> /\ reply.images = <<>>

\* the key is missing, so the content filter's provider raised, and ask has
\* returned its failure payload
C23_Witness ==
  /\ apc = "done"
  /\ ~env.key
  /\ flow.raised = "ValueError"
  /\ reply.type = "dict" /\ ~reply.success
  /\ reply.answer = ProviderMessage.key_missing

\* the stage a step belongs to: 1 input guardrail, 2 rewrite, 3 embed and
\* search, 4 rerank, 5 generate, 6 output guardrail
StageOf(step) ==
  CASE step \in {"input_validations", "content_filter_llm",
                 "input_validations_with_llm"} -> 1
    [] step = "rewrite_user_question" -> 2
    [] step = "retrieve_context" -> 3
    [] step = "rerank_results" -> 4
    [] step = "generate_llm_response" -> 5
    [] step \in {"output_basic_validations", "sanitize_content",
                 "output_validations_with_llm", "enhance_response_quality"} -> 6

\* C24: for one ask the stages run strictly in the order input guardrail,
\* rewrite, embed+search, rerank, generate, output guardrail: the first step
\* belongs to the input guardrail, each step is given what its predecessor
\* returned and belongs to the predecessor's stage or the next one, no step
\* runs twice, and no step calls its external model more than once.
C24_StagesInOrder ==
  /\ trace # <<>> => StageOf(trace[1].step) = 1
  /\ \A j \in DOMAIN trace :
       /\ trace[j].res.calls <= 1
       /\ \A k \in DOMAIN trace : trace[k].step = trace[j].step => k = j
       /\ j > 1 =>
            /\ trace[j - 1].res.raised = ""
            /\ trace[j].arg = trace[j - 1].res.value
            /\ StageOf(trace[j].step) - StageOf(trace[j - 1].step) \in {0, 1}

\* a whole ask: all six stages ran, the scorer and the enhancer were called
C24_Witness ==
  /\ apc = "done"
  /\ {StageOf(trace[j].step) : j \in DOMAIN trace} = 1..6
  /\ \E j \in DOMAIN trace : ScoringDone(trace[j])
  /\ trace[Len(trace)].step = "enhance_response_quality"
  /\ trace[Len(trace)].res.calls = 1

\* the metadata records the last ingest call stored, in chunk order
StoredByLast ==
  SubSeq(store.metadata,
         Len(store.metadata) - last.result.total_chunks + 1,
         Len(store.metadata))

\* the images of the call's argument that are on the page, in their order
ImagesOnPage(images, page) ==
  LET OnPage(img) == img.page = page IN SelectSeq(images, OnPage)

\* C25 as stated: at insertion each chunk is linked to exactly the images
\* whose page number equals the chunk's: its stored image records are that
\* whole subset, in extraction order; a chunk whose page number is null is
\* linked to no images.
C25_LinkedToWholePage ==
  (last.op = "ingest" /\ last.result.success) =>
    \A j \in DOMAIN StoredByLast :
      StoredByLast[j].image_info =
        IF last.arg.metadata[j].page_number = NoneVal THEN <<>>
        ELSE ImagesOnPage(last.arg.images, last.arg.metadata[j].page_number)

\* C25 amended: at insertion each chunk is linked to the images whose page
\* number equals the chunk's: the stored count is the size of that subset
\* and the stored image records are its first three, in extraction order (all
\* of them when there are at most three); a chunk whose page number is null
\* is linked to no images.
C25_LinkedToPage ==
  (last.op = "ingest" /\ last.result.success) =>
    \A j \in DOMAIN StoredByLast :
      LET page == last.arg.metadata[j].page_number
          subset == IF page = NoneVal THEN <<>>
                    ELSE ImagesOnPage(last.arg.images, page)
      IN /\ StoredByLast[j].associated_images = Len(subset)
         /\ StoredByLast[j].image_info =
              [k \in 1..(IF Len(subset) < 3 THEN Len(subset) ELSE 3) |->
                 subset[k]]

\* two images on page 2, a chunk on page 2 and a chunk without a page: the
\* first has both images, the second none
C25_Witness ==
  /\ last.op = "ingest" /\ last.result.success
  /\ last.arg.images = <<Img(2, "a"), Img(2, "b")>>
  /\ Len(StoredByLast) = 2
  /\ StoredByLast[1].page_number = 2
  /\ StoredByLast[1].image_info = <<Img(2, "a"), Img(2, "b")>>
  /\ StoredByLast[2].page_number = NoneVal
  /\ StoredByLast[2].image_info = <<>>

\* C26: after every successful ingest call, the store's metadata_count
\* reported in the result equals the total_chunks reported for that call,
\* also when ingest is called more than once on the same store.
C26_MetadataCountIsTotalChunks ==
  (last.op = "ingest" /\ last.result.success) =>
    last.result.vector_store_stats.metadata_count = last.result.total_chunks

\* C27: chunks stored by a successful ingest are visible to later questions:
\* the chatbot service searches the store the ingestion service filled, so a
\* retrieval whose embedding has the store's dimension finds as many chunks
\* as the store holds (up to the k it asks for), and none only when the
\* store is empty.
C27_AskSearchesIngestedStore ==
  \A j \in DOMAIN trace :
    ( /\ trace[j].step = "retrieve_context"
      /\ ~trace[j].out.err
      /\ Len(trace[j].out.vec) = store.dimension ) =>
      /\ trace[j].res.value.total_results =
           Min(RetrieveK, get_stats(store).total_vectors)
      /\ trace[j].res.value.has_results = (get_stats(store).total_vectors > 0)

\* C28: the failure payload of answer_user_question tells which guardrail
\* rejected: chains_used.input_validation is "failed" exactly when a step of
\* the input chain raised the rejection, and chains_used.output_validation
\* is "failed" exactly when a step of the output chain raised it.
C28_PayloadNamesGuardrail ==
  (apc = "done" /\ flow.raised = "ValueError") =>
    LET raising == trace[Len(trace)].step
    IN /\ (reply.chains_used.input_validation = "failed")
            <=> StageOf(raising) = 1
       /\ (reply.chains_used.output_validation = "failed")
            <=> StageOf(raising) = 6

\* C29: the context handed to the generation stage is the complete stored
\* text of the chunk that is first in the final source order, whether or not
\* reranking was applied.
C29_ContextIsWholeChunk ==
  \A j \in DOMAIN trace :
    (trace[j].step = "generate_llm_response" /\ trace[j].arg.has_results) =>
      \E m \in Range(store.metadata) :
        /\ m.id = trace[j].arg.sources[1].chunk_id
        /\ trace[j].arg.context = m.text

\* C30: every answer the output guardrail chain lets through satisfies the
\* structural bounds when it is returned: it is not empty, has at least 10
\* characters after trimming and at most 5000 characters, also after
\* sanitization and after an accepted enhancement.
C30_ReturnedAnswerWithinBounds ==
  (apc = "done" /\ flow.raised = "") =>
    /\ len(strip(reply.answer)) >= MinAnswerLength
    /\ len(reply.answer) <= MaxAnswerLength
====
